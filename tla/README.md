# TessariDB in TLA+

A verification development for TessariDB (`src/`, a Rust workspace: a multi-model
database with its own query language, log-structured storage, lease-elected
leaders and log replication). It models the parts whose correctness depends on
the order in which concurrent steps happen, checks them with TLC on small
instances and proves the central facts with TLAPS for every value of the
constants.

## The system

| Part | State it keeps | Operations | Interacts with |
|---|---|---|---|
| **Write gate and commit path** (`tessari-storage`: `gate.rs`, `gate/pending.rs`, `gate/overlay.rs`, `landed.rs`, `transaction/commit/`) | the turn; staged and in-flight batches, answers, dropped tickets; the landed register; why the store stopped | begin, hold, check, stage, land, collect, retry | engine (batches), replica apply (the same turn), readers (landed register) |
| **Replica apply** (`store/apply.rs`) | none of its own | apply a record at a log position | write gate (`land_all`, `apply`) |
| **Engine contract** (`tessari-kv`, `tessari-lsm`) | the rows, the write-ahead log | apply a batch, apply a group, recover | called by the gate |
| **Leader election** (`tessari-wire`: `grant/`, `campaign.rs`, `driver/leadership`) | each voter's grant and highest epoch seen; each node's lease, its fence and the epochs it stood at | ballot, grant, round, renew, stand aside | commit path (epoch stamp and fence), collection (log positions) |
| **Collection** (`tessari-wire/collection`) | per follower: what was asked, what was sent | ask a page, apply it, refuse a deposed leader, re-seed | replica apply, acknowledgement |
| **Acknowledgement** (`tessari-session/session/acknowledging.rs`, `tessari-storage/holds.rs`) | who waits for which position; what was sent to each follower, and what it said it holds | wait for a majority or a deadline | collection's counts |
| **Snapshots and reclamation** (`snapshots.rs`, `reclaim.rs`, `retired.rs`, `intents/folding.rs`) | live snapshots, the reclaim floor, retired index entries | register, release, reclaim a table, fold, trim retired entries | begin, begin_at, index maintenance |
| **Transactions across leaders** (`intents*`, `transaction/across*`, `session/across*`) | the transaction's record, intents, part markers, bars | prepare, stage, decide, resolve, recover, forget | commit path at each leader, readers (`visible.rs`) |
| **Pruning** (`pruning.rs`) | each log's start | prune, trim | collection, bars |
| **Shard map** (`shards`, `commit/moved_map.rs`) | the map and its registry | move, teach, forget | commit path's placement |
| **Queues, topics, Kafka groups** (`tessari-session/queue*`, `topic`, `tessari-kafka`) | claims with deadlines, offsets | claim, release, consume | commit path |
| **Language, values, indexes, servers, tools** | – | parse, plan, evaluate, encode, serve | everything above |

What is hard about it:

* *Concurrency inside one process.* A writer derives its batch on batches that
  have not reached the device; they may fail after it has read them. Batches land
  in groups, by whichever waiter finds nobody landing, outside the turn.
* *Cancellation.* Every await is a point where a task can be dropped: holding the
  turn, holding a ticket, or in the middle of everybody's landing.
* *Failure.* A batch may be refused, a group may land in part, a sync may fail
  and leave a hole in the log that recovery stops at.
* *Time.* Leases are promises made by one clock and kept by another; voters do
  not write their votes down.
* *Replication.* A deposed leader goes on serving what it has; acknowledgement
  counts copies; a follower judges a stream by its own log.

What makes each part correct:

* commit path: one dense history; first committer wins; an answer is true when
  given and stays true; an acknowledged write is readable next and survives a
  reopen; nobody waits for ever; nothing is leaked by a dropped task;
* election: one writer at a time, one leader per epoch, a leader holds every
  acknowledged write;
* retention: nothing a live reader resolves to is removed;
* across leaders: all parts or none, for every reader and after every recovery.

`PROJECT.json` lists every component, the hazards with their source lines and,
for each definition, the lines it models.

## Modules

| Module | What it is |
|---|---|
| `WriteGate` | the commit path of one store: state, one action per step, faults, properties, and the refinement mapping to `AtomicCommits` |
| `AtomicCommits` | what the commit path promises its callers, with no turn, group or ticket |
| `MCWriteGate` | instances for TLC |
| `WriteGateProofs` | the inductive invariant and the TLAPS proofs |
| `AnswerProofs` | what the commit path's answers are worth, and that it implements `AtomicCommits` |
| `Leadership` | the store line's elections, leases, fences and restarts, and the writes and copies made under them |
| `MCLeadership` | instances for TLC: who reaches whom |
| `LeadershipProofs` | the inductive invariant of `Leadership` and its TLAPS proofs |
| `ElectionProofs` | proofs that an epoch has one winner and one author, and that copies agree |
| `LeaseProofs` | the inductive invariant of the fences, and the proof that one node writes at a time |
| `Acknowledgement` | writes that wait for a majority, composed with `Leadership`'s elections and copies |
| `MCAcknowledgement` | its instance for TLC |
| `Across` | one transaction over ranges with different leaders: driver, leaders, housekeeping, properties |
| `AcrossReads` | a reading transaction on lagging copies of those ranges, composed with `Across` |
| `MCAcross`, `MCAcrossReads` | their instances for TLC |
| `AcrossProofs` | the inductive invariant of `Across` and its TLAPS proofs |
| `AcrossReadsProofs` | the same for readers, on top of `AcrossProofs` |
| `Retention` | versions, readers, reclamation, folding, and the retired entries of an index |
| `MCRetention` | its instance for TLC |
| `RetentionProofs` | the inductive invariant of `Retention` and its TLAPS proofs |

### WriteGate

| State | In the code |
|---|---|
| `log`, `version`, `tail` | what the engine holds: the batches, `committed_version`, `committed_tail` of each log |
| `hole` | how far recovery gets after a failed sync (`gate/fault_tests.rs`) |
| `queue`, `cut` | `State::in_flight` followed by `State::staged`; the first `cut` are in flight |
| `lander`, `outcome` | who runs `Pending::flush`; what the engine answered before `record` ran |
| `answers`, `gone` | `State::answers`, and the tickets dropped before their answer |
| `landed`, `stopped`, `turn` | `Landed`, `WriteGate::stopped`, the write mutex |
| `pc`, `snap`, `attempt`, `batch`, `result`, `told` | each task: its place in `settle`, its snapshot, its attempt, its batch, the answer it took, what its caller was told |

A batch is abstracted to its writer, its log, and the position and version its
preconditions assert to be next; `on` is a history variable: the writers whose
batches its derivation read. Actions follow the awaits of the code: what runs
between two of them, or under `Pending`'s lock, is one action.

| Action | In the code |
|---|---|
| `Begin` | `Store::begin` of a task that holds no turn |
| `GiveUp`, `Hold` | the attempt limit and `WriteGate::hold` |
| `Derive`, `Conflicted` | `committed_tail`, `check_for_conflicts` |
| `Stage` | `committed_version`, the batch and its preconditions, `stage` and the drop of the turn; on a backend that shares no sync, on to `Apply` |
| `EnterLand` | `WriteGate::land`'s refusal once stopped |
| `Collect`, `TakeGroup`, `Park` | the three outcomes of `Pending::land`'s locked block (and of `land_all`'s) |
| `Flush`, `Record` | the engine write, and `Pending::record` |
| `Settle` | `stop_on` and the match on the outcome in `settle` |
| `Drained`, `Place`, `Apply` | `land_all` returning, `apply_at`'s position check, `WriteGate::apply` |
| `Cancel`, `CancelApply`, `Abandon` | a task dropped at an await, inside its own engine write, or while landing a group (`Ticket::drop`, `Landing::drop`, a contained panic) |
| `Reopen` | the process ends and `Store::open` recovers |

Modelling choices:

* a ticket is named by its task: a task holds at most one, and a retried attempt
  starts after its last ticket was answered;
* `Derive` reads the tail and makes the conflict check in one step. Both read the
  same overlay; splitting them adds interleavings with a landing that the version
  read, which is a step of its own, already covers;
* an engine write that nobody hears of is decided when it is abandoned: it took a
  prefix of what it judged, or nothing;
* left out because they change nothing the gate keeps: a rehearsal's early return,
  the bounded spaces' held values, catalog rows taught to the registry, the byte
  limit of a group (`MAX_GROUP_BYTES` only makes groups smaller, which `MaxGroup`
  bounds already), and the back-off between attempts, which is time only;
* the leadership fence a commit passes under the turn is in `Leadership`; the
  placement recheck under the turn is planned.

### AtomicCommits

The specification a caller may rely on: writers take effect one after another in
one `history`; a transaction begins at a point of it that holds everything
acknowledged; nothing takes effect over a write its snapshot did not hold; `ok`
is only said of what took effect, `refused` only of what did not and never will;
`unknown` (a failure, a stop, a dropped caller) says nothing. The mapping takes
the engine's log for the history.

### Leadership

| State | In the code |
|---|---|
| `now` | real time in ticks; a node measures spans of it, each up to `Drift` wrong |
| `policy` | the lease in each node's catalog (`Failover`) |
| `voter` | `Voter`: when it started, its hold, its one grant, the highest epoch seen; in memory only |
| `standing`, `stood`, `heard` | `Renewing`'s three facts; in memory only |
| `round`, `ballots` | a `Round` being canvassed; ballots on their way, some of a round that is over |
| `lease`, `leading`, `commit` | the store's fence (`lease.rs`), the epoch it states, and the epoch an admitted commit was stamped with |
| `log` | each node's copy of the line's log: the epoch each record is stamped with, and its author |
| `led` | history: who won which epoch |

| Action | In the code |
|---|---|
| `Answer` | one ballot judged by `Voter::asked` behind the door, and its vote counted or noted by the round that waits for it |
| `Pass`, `Open` | a pass of `stand_for_leadership`: adopt the policy's lease; stand, unless a leader is heard or margin is left, and put the ballots |
| `Close` | the rest of `Standing::renew`: the own vote, `Voter::carried`, and `Renewing::answered` |
| `Name` | the second half of `Store::hold`: the epoch is named after the lease is in force |
| `Admit`, `Land`, `RefuseFenced` | `settle`'s admission and stamp, the landing once the turn is held, and the fence judged again |
| `Collect` | a follower takes the next record from `Serving::collecting`, past `deposed::refused` and `refuse_a_parted_history` |
| `Restart` | the process starts again with its log and catalog; voter and cursor are new |
| `Install` | a failover policy reaches a node |
| `Tick` | the environment: time passes |

Modelling choices:

* a span measured by a node is wrong by at most `Drift`, both ways and each time
  it is measured; `2 * Drift <= Guard` is the assumption `lease.rs` states for
  the guard (the holder's clock slow by one drift, the voter's fast by another);
* when a node stands is left open: cadence, stagger, spread and greetings only
  delay it. What forbids it, a grant to another node younger than the lease, or
  margin left, is kept;
* one round takes up to `MaxCanvass`. Each dial step is bounded by the round, but
  the steps add up and the name lookup is not bounded, so the constant is a
  property of a deployment, not of the code; the runs state which value they need;
* a candidate's own vote uses the instant the pass began, as the code does;
* the first pass after a start, which takes the policy's lease, is part of
  `Restart`;
* the row that names the leader is written under the leadership it names, so the
  newest one is read off the last record (`LedElsewhere`);
* a commit is stamped before it waits for the turn and only the fence is judged
  again, so a record may name an earlier leadership of its author than the one it
  lands under (`settle.rs` says they cannot disagree); the properties of the log
  are stated of the stamps;
* a commit stamped with no leadership goes to the node's own log and is dropped.

### Acknowledgement

`Acknowledgement` extends `Leadership` and takes each of its actions, alone or as
part of its own.

| State or action | In the code |
|---|---|
| `sent` | `Standing::sent` of `holds.rs`, per leader process and follower |
| `waits`, `acked` | callers in `await_acknowledged`; history: the writes whose callers were answered |
| `LandAndWait` | `commit_acknowledged`: the commit lands, the wait starts |
| `Send` | `Serving::collecting`: the next record is sent and noted as sent; the follower takes it (`Collect`), or refuses it, or never gets it |
| `Counted`, `Holders` | `Holds::asked` (the position stated, capped by what was sent) and the look `await_held` takes |
| `Acknowledge`, `RunOut` | the two ends of `await_held`: the count is looked at before the clock |
| `RestartUnheld` | `Restart`, with `Holds` gone and nobody waiting |

A report has no state of its own: logs only grow here, so what a report counts
for never shrinks and the latest one that can have come is `Counted`; `RunOut`
needs no shortage, because reports may still be on their way. The wait is
`RoundTime`, the failover policy's round, as in the code. Left out: `LOCAL
MAJORITY`, subscriptions that do not cover the write, and re-seeding.

### Across

| State | In the code |
|---|---|
| `line` | per range, what its leader has applied of T after each log record from the newest one a majority holds on: the transaction's record (`rec`), the intent, the part's marker (`landed`), its bar, the value readers find, and how the intent ended |
| `trimmed` | the log no longer reaches what T had read (`written_since_seen`, `unbar_below`) |
| `net`, `reply` | asks to a leader and the one answer the driver waits for; `at` says how much of the range's line a majority must hold before the answer is given (`hold_tail`) |
| `pc`, `merged`, `known`, `missed`, `told` | the driver (`session/across/driver.rs`, `driver/parallel.rs`) |
| `overdue`, `verdict`, `recovering`, `gone` | the deadline and housekeeping (`Db::settle_across`, `recovery.rs`) |
| `settling` | settles that have read T's record and not written yet: what each will write, and whom it answers (`Session::settle_across`) |
| `looked`, `overtaken` | history: the driver asked by a lookup, past the deadline; a settle's abort, decided on an older read, replaced a STAGING record |

| Action | In the code |
|---|---|
| `Prepare`, `Begin`, `Decide`, `Settle`, `Lookup`, `Bar`, `Conclude`, `ResolvePart` | one `AcrossAsk` each, answered at a leader (`answering.rs`, `transaction/across*.rs`, `intents.rs`); of `Settle` and `Lookup` the read |
| `SettleWrites` | the commit a settle makes of what it read, judged by `intents.rs` against the record as it stands then; refused, it reads again |
| `Start`, `HearPrepared`, `MissPrepared`, `Finish`, `FinishParallel`, `Recover`, `Hear`, `GiveUp` | the driver, either way; it may stop anywhere because nothing obliges it to go on |
| `HouseAbort`, `HouseAsk`, `HouseResolve`, `HouseRecover`, `HouseBar`, `HouseDecide`, `HouseHolds`, `HouseForget`, `LaggardAsk` | housekeeping at the leaders, and a lagging copy that asks for an intent long resolved |
| `Write`, `Replicate`, `Prune`, `Lapse` | other writers, copies, retention of the log, the deadline |
| `Failover` | the environment: a change of a range's leader |

Modelling choices: what the driver had read is held by a majority; clocks agree
on the deadline; a record rewritten as it stands takes no new place; every range
is remote to the driver, and the order in which it goes through the participants
is left open; an ask may arrive late or never. The repository has a model of the
protocol of its own (`across_model.rs`), which these modules do not use.

### AcrossReads

The copies of one reading node apply, one record at a time (`CopyApplies`), what
a majority holds (`Collect`). `BeginRead` takes the snapshot, and each `Read`
follows `first_in_range` and `passes_over`: which versions of T are stored now at
or below the snapshot, whether T is committed (this node's record, or the answer
of the record's leader, which may not come), and whether the snapshot holds every
part; what was found is kept in `sees`, as `Transaction::decided` does. Leaders
stay and nobody else writes, which keeps the product small; `Across` covers both.

### Retention

| State | In the code |
|---|---|
| `log`, `stored` | history: what each version wrote; the versions still stored |
| `folded`, `whole` | whether T's version lost T's name (`fold_settled_across`); the version at which T's other part landed |
| `entries`, `retired`, `since` | a plain index, its retired entries, and from where on they are complete (`retired.rs`) |
| `landed`, `mark` | the landed register; the reclaim floor below which reads are refused |
| `reader`, `pass`, `trim` | each reader (idle, version chosen, registered), and the floors of the passes under way |
| `search` | each reader's search of the index: how far it is, whether it merges retired entries (`retired_reads`), the newest version whose removals it has seen, and what it found |

`Begin` and `BeginAt` choose a version, and `Register` is a step of its own, as
`Transaction::new` is in the code. `PassBegins` reads the floor; `Fold` and
`Sweep` are its batches; `TrimBegins`, `TrimRaises`, `Trim`, `TrimEnds` are the pass
over the retired entries: the floor read, `since` raised, the removals. A search takes
three steps, with commits and trims between them: `Admit` (`declared_for`, which decides
by where the tail is then whether retired entries will be merged), `MergeRetired`
(`retired_candidates`) and `ScanLive` (the entries that stand, which `records_in_range`
and `ids_in_range` read second). The reads `Admit` makes one after the other are one
step: a commit between them overtakes the search just as one after them does. A scan
is one batch. `Reopen` may happen between any two steps. Intents are not in the log
of this module and are never reclaimed, so what an index or `across_unsettled`
does while only intents stand is left out; there is one table, one T, one plain
index, one pass of each kind at a time.

## Runs

| Run | Instance | Shows |
|---|---|---|
| `gate_faults` | 3 transactions (two on one record), 1 apply, one log, groups of 2, 2 attempts, busy engine, cancellation, reopen | type, dense versions and positions, first committer wins, readable is landed, acknowledged is readable, refusals are final, no ticket leaks, a batch lands on what it read |
| `gate_ungrouped` | the same writers, two logs, no shared sync, every fault | acknowledged survives, stopped does not land, a batch lands on what it read |
| `gate_refines` | 2 transactions on one record, 1 apply, busy, failing syncs, cancellation | the commit path implements `AtomicCommits`; every writer is answered |
| `gate_failed_sync` | 2 transactions, failing syncs, reopen | **violated**: an acknowledged commit lost |
| `lead_restarts` | 3 voters, 2 candidates, drift 1, guard 2, lease 4, rounds of up to 1, time to 4; every answer delivered; the third voter restarts once, or one node's lease is shortened to 2 | one writer at a time; a leader's own voter knows of its lease |
| `lead_writes` | 3 voters, 2 candidates, no restart, answers lost, one ballot late, no drift, lease 2, guard 1, two epochs, two records per log | type; one winner per epoch; nobody writes under a leadership that was passed; an epoch has one author; copies that meet agree |
| `ack_late` | 3 voters, 2 candidates, lease 5, guard 1, round 2 (a legal policy: lease at least guard and two rounds), one record per log | **violated**: an acknowledged write is not in the next leader's log |
| `across_commit` | 2 ranges, both ways of driving, one change of leader or lagging ask, another writer and a trimmed log at the participant | type; no lost update; kept only when whole; and until a settle overtakes the begin, one outcome, and what was told stays true |
| `across_finishes` | 2 ranges, both ways of driving, one change of leader or lagging ask, under fairness | housekeeping finishes T and forgets it, a settle that overtook the begin included |
| `across_reads` | 2 ranges, the staged way, one reader on lagging copies | until a settle overtakes the begin: a reader sees T whole while its intents stand, never what is undone, always what was answered |
| `across_torn` | the same | **violated**: a reader sees T in one range and not in the other |
| `retention` | 1 record, 2 values and tombstones, 3 versions, a reader that may search, T and its other part, reopen | type; the mark is honest; a search no commit overtook misses nothing; a protected reader stays protected |

Why the bounds are enough for the cases that matter: a group of two and three
transactions give a member in flight, one behind it in the group, and one staged
behind the group, so that a group fails as a whole, in part, and with something
derived on it; two transactions on one record give a conflict with a pending and
with a landed write; the apply competes for the turn and drains the queue; two
attempts give one retry and one refusal for contention. `Reopen` only happens
while somebody is running, and the runs end when every task has been answered
(`Finished` keeps that from counting as a deadlock, so a real deadlock is found).
`gate_faults` and `gate_ungrouped` exchange the two transactions on the shared
record by symmetry; no property or constant tells them apart.

The `lead_` runs bound time, epochs and records, so their behaviours end where
time does and deadlock is not checked. Time runs to at least the end of one (the
shorter) lease, so that a lease is won, runs out on the slowest clock and another node
wins, at the same or at the next epoch, and in `lead_writes` extends the log the first
one wrote; three voters are the smallest cluster with a majority that a
node is not part of. Between them the runs cover rounds that outlast a tick,
ballots judged after their round ended, refusals of every kind, and wins with and
without the own vote. In `OneWay` the ballots of one candidate reach only part of
the cluster, which keeps a contested election while halving the ballots.

The `across_` runs have two ranges: the record's and one participant, which is
where every race of the protocol is (a part landed, missing, barred or late; a
record absent, pending, staging, decided, forgotten). One mishap is enough for a
change of leader, which loses any part of a line a majority does not hold, at any
point of either way, or for one ask of a lagging copy. Nothing deadlocks by
design at the end (T is forgotten), so deadlock is not checked; that T gets there
is `Finished`, for which `across_finishes` leaves out the other writer and the trimmed
log. `across_reads` and `across_torn` stop at the first state in which a settle has
overtaken the begin (`NotOvertaken`): `overtaken` is never taken back and the three
properties of `across_reads` say nothing after it, so nothing they say is cut off.

`retention` has three versions of one record: T's, one under it and one above it,
or T's other part between two writes. Two values, exchanged by symmetry, let a commit
move the record from one entry to the other; one reader, which begins again and
searches as often as it likes, meets passes before and after it registers. That the
floor is the least of several readers' versions is left to `ProtectedForLife`: the
proofs below are for any number of records, values, readers and versions.

### What the violated runs show

* `gate_failed_sync`: the failed batch's waiter, not the landing, stops the store
  (`gate.rs:214`). Between `Pending::record` and that waiter's next poll another
  commit can be staged, landed and acknowledged, after the hole. The comment in
  `gate/fault_tests.rs` says the first failure stops the store so that this
  cannot happen. On a backend that shares no sync it cannot: the stop is set under
  the turn (`gate_ungrouped`).
* `across_torn`: a resolution deletes the intent and writes its value at a new
  version. A reader that has decided it sees T finds in a range whose copy
  resolved since neither the intent nor, at its snapshot, the value.
  `visible.rs` says "whole, or not at all, decided once"; `across_reads` shows
  that this is so as long as the intents the snapshot holds stand.
* `ack_late`: the wait of a write is one round of the policy (200 ms by default)
  and is measured from the landing; the fence closes only 150 ms before the lease
  ends. A write that lands just before the fence still waits when the voters are
  free again. One of them elects a leader that does not hold the write, then
  collects it from the old leader, which `deposed.rs` refuses only once the
  collector's own log ends in a later leadership, and the copy is counted. With a
  round no longer than the guard TLC finds no such behaviour (lease 2, guard 1,
  round 1, time to 3: 1.7 million states).

### Disagreements met and not kept as runs

Each was found with TLC on these modules, or a variant of them; the constants
that show it are given where the modules as they stand have them.

* A store that has stopped refuses a batch already staged, and the drain of a
  replica apply lands it later (`gate.rs:212`, against `fault_tests.rs:135`):
  `StoppedDidNotLand` with groups, failing syncs and an apply.
* A commit reads what is pending in one log, that group fails, and it reads the
  version afterwards: with two logs and groups its preconditions hold although
  what it read does not exist (`settle.rs:232`, against `pending.rs:26-29`):
  `LandsOnWhatItRead` with two logs and groups.
* `Voter::carried` overwrites a rival's grant of the same epoch on the ground that
  every voter grants an epoch once. A voter that restarts grants it again; with
  canvasses longer than the guard allows two nodes are inside their fences
  (`voter.rs:181-185`, `:202`): `OneWriter` with `MaxCanvass` and the lease 3.
  Two winners of one epoch one after the other need no slow canvass: that is why
  `OneLeaderPerEpoch` is checked without restarts.
* A restarted voter sits out the policy it finds in its catalog; if that was
  shortened since the grant it forgot, it waits too little (`voter.rs:141-145`):
  `OneWriter` in `lead_restarts` with `MaxRestarts = 2`.
* A promise already made is shortened by a policy after all: a voter that has
  adopted the shorter hold renews its grant with it, and if that answer is lost
  the leader keeps the longer lease it holds while the voter comes free early
  (`voter.rs:156`, against `grant.rs:401-403`, "a policy installed afterwards
  neither shortens a promise already made"): `OneWriter` in `lead_writes` with
  `Policies = {2}`, `FirstPolicy` and `TTL` 5, `RoundTime = 2`, `MaxRestarts = 2`
  (it counts installs too; one is used), `MaxTime = 4`, `MaxLate` and `MaxLog` 0.
  The leader's round must have opened with the margin of the old policy.
  `lead_restarts`, in which no answer is lost, does not reach it.
* What a leader sent is remembered past its leadership and says nothing of the
  history the follower holds at that position: a follower whose answer was lost
  and which then took another leader's record at the same position is counted
  (`holds.rs:80`, against its "only what this leader sent counts").
* An ask that outlives the forgetting of T's record begins T again: the
  participant housekeeping has meanwhile dropped stays dropped
  (`parallel.rs:60-65`): `OneOutcome` with `Lingers = TRUE`. And a lagging copy
  that settles a forgotten record aborts a transaction that committed, which a
  driver that only then asks is told; `ToldIsKept` leaves it out by `looked`.
* A settle reads T's record outside the turn and writes its abort in a commit of its
  own, which `intents.rs:278` accepts over a STAGING record (only a begin or a PENDING
  record is refused there). A begin that lands in between is aborted, unbarred, although
  every part may have landed and the caller been told so (`session/across.rs:220` and
  `:249`, against `:223-224`, "Decided by status recovery and nothing else (D14c): it
  may be committed implicitly already, which no deadline undoes"): `WholeOutcome`, which
  is `OneOutcome` without its `overtaken`, as an invariant of `across_commit`. It is
  violated in sixteen states: a settle reads no record, the begin lands and every part
  with it, the settle's abort replaces the STAGING record, and housekeeping drops the
  part in the record's own range; the driver, which heard every part land, tells its
  caller committed and the participant keeps its part. A reader may have been shown T
  too.
  `OneOutcome`, `ToldIsKept` and the properties of readers end at that abort; `TypeOK`,
  `NoLostUpdate`, `KeptIsWhole` and `Finished` hold through it.
* A search admitted at the tail merges no retired entries, and one behind it reads them
  before the entries that stand: a commit that lands in between moves an entry where the
  search no longer looks, and a record that matched at its version is missed
  (`candidates.rs:401`, `retired.rs:261`, `transaction/index.rs:141` and `:162`, against
  `retired.rs:22-23`, "a SUPERSET of the records that matched at `S`", and
  `lifecycle.rs:316-317`, "Every read that would be served from an index asks here
  first, and a `false` means take the scan"): `IndexFindsOutsideT` with `"overtaken"`
  beside `"done"` is violated in eight states: a record is written, a reader registers
  and is admitted, another commit changes the record, and both reads find nothing.
* A pass over the retired entries that read its floor before a reader of an older
  version registered may raise `since` above it after the reader was admitted
  (`retired.rs:118` and `:125`): the late registration below, met by the index.
  `IndexFindsOutsideT` speaks of readers at or above `since`.
* Index maintenance reads what a record was as a reader would. It passes over a
  resolved version whose other part is missing, or reads its own intent, so that
  the entry really replaced stays in the index (`index.rs:227`, against
  `candidates.rs:388`, "At the tail every index of the table, exactly"). A search
  reads each candidate again, so this costs an entry, not an answer.
* A reader between T's resolution and its other part may miss an entry retired at
  or below its version (`retired.rs:22-23`, "SUPERSET"); `IndexFindsOutsideT`
  leaves out the readers that pass T's version over.
* A reader that has chosen its version and not yet registered it is not seen by a
  pass (`parts.rs:204`, `:243`); nor does the floor, with only newer readers
  registered, stop at the version the next begin takes (`parts.rs:274-276`). Such
  a reader may find the mark above itself. `ExactAboveMark` shows that the mark
  then says so; `StaysProtected` begins at the registration.

### Fairness

`FairSpec` asks for weak fairness of each task's own steps: the runtime polls
every task it holds, the turn is a fair mutex handed on whenever its holder goes
on or is dropped, an engine write ends. Nothing is assumed of faults. Weak
fairness of the turn is enough, though a lock can be taken by others between two
polls: each task takes it at most `MaxAttempts` times.

`Across`'s `FairSpec` asks for weak fairness of `Upkeep`, which is any one of: the
deadline, the copying of a range's log, a step of housekeeping and the write of a
settle under way. As long as one of them can be taken, one is: leaders run
housekeeping at a cadence, their followers keep asking for the log, and a settle that
has read goes on to its commit. One fairness for all of them is less than one each,
and enough. Nothing is asked of the
driver, of an ask's arrival, of other writers, of retention or of changes of
leader. `Finished` is checked with that. The other specifications are safety only.

## Proofs

`WriteGateProofs` proves, from `GateAssumption` alone (disjoint sets of tasks,
constants of their types, `MaxGroup` and `MaxAttempts` positive) and for any set
of faults:

* `TypeCorrect`: `Spec => []TypeOK`;
* `HistoryIsDense`: `Spec => []DenseVersions`;
* `NoLostUpdate`: `Spec => []FirstCommitterWins`;
* `BeginsAtLanded`: `Spec => []ReadableIsLanded`.

None of the last three is inductive. The invariant `Inv` adds:

* `Shape`: one landing at a time, of a front of the queue, by the task it names;
* `TurnHeld`: which steps hold the turn, and that nothing is queued while a
  drained apply or an ungrouped commit writes;
* `Chain`: the queue continues the engine's history without a gap, counted from
  what the group in flight has already put there;
* `Owned`: a queued batch is its task's own and unanswered, a kept or collected
  `ok` is of a batch that landed;
* `Covered`: every write a queued batch could land over was under its snapshot
  when it was checked, and stays so while others land or fail before it;
* `Reads`: the landed register and the snapshots are at or below the engine.

The proof has one lemma per action (or group of actions that change the same
variables) and one step per conjunct the action can disturb. The argument for
`NoLostUpdate` is that a batch's version is the place it lands at (`Chain`),
so what is checked against pending versions at staging time is what holds among
log positions at landing time; a failed group empties the queue, so nothing stays
behind that was checked against what went.

`AnswerProofs` goes on from `Inv`, from `GateAssumption` and for any faults unless
a hypothesis says otherwise:

* `LogsAreDense`: `DensePositions` always holds;
* `RefusalsHold`: `RefusalIsFinal` always holds;
* `TicketsAccounted`: `NoTicketLeaks` always holds;
* `AcknowledgedIsReadable` and `AcknowledgedSurvives`: `AckedIsReadable` and
  `AckedSurvivesReopen` always hold if `Lossless`: no sync fails, or none is shared,
  or the store is not opened again;
* `StoppedIsUnwritten`: `StoppedDidNotLand` always holds if syncs are not shared;
* `LandsOnItsReads`: `LandsOnWhatItRead` always holds if `TailIsVersion`: all write
  one log, or syncs are not shared;
* `CommitsAreAtomic`: without reopening, `Spec` implements `AtomicCommits`.

The hypotheses are what the code needs, not what the provers do: without `Lossless`
there is `gate_failed_sync`; shared syncs break `StoppedDidNotLand`, and shared syncs
over two logs `LandsOnWhatItRead` (the disagreements above); after a reopening a
version may be used again, which `AtomicCommits` has no word for.

Positions need `TailCounts`: a log's tail is the number of its batches landed, so
that the engine's precondition on a tail is a statement about the history. The
answers need `Told`: a task's batch is in one place only (`Once`: landed or queued,
and once), each answer a task holds, waits for or was told says which (`TicketOf`,
`UnlandedOf`, `AckedOf`), and recovery reaches everything acknowledged (`Durable`).
A refusal is final because `Pending::record` refuses all that is staged behind a
failed group in the step that records the failure. `LandsOnItsReads` numbers the
landed history and what is pending behind it as one (`WholeAt`): a derivation read a
front of that (`HeldOn`, `QueuedOn`, `LandedOn`), and a failed group that takes part
of it away takes the tail back too, which the precondition then misses. For the
refinement each step is shown to append the batches the engine took, one after the
other, to begin at the landed register, or to answer; the acknowledged batches of
others lie at or below a new snapshot by `AckedOf`.

`LeadershipProofs` proves, from `LeaseAssumption` and `NoneApart` and for any
cluster, any lease, guard, drift, policies, losses and restarts:

* `LeadershipTyped`: `Spec => []TypeOK`;
* `OwnVoterHeld`: `Spec => []OwnVoterHolds`.

The second needs `BallotsOut` (a ballot is put to somebody else, and a ballot
still awaited has its round open), `RoundBounded` (a round promises no more than
its candidate's own hold, and does not count its candidate yet) and `LeaseBacked`
(the lease in force is the one the cursor stands on, and while it is writable the
own voter's grant is of its epoch, no older and no shorter). The argument: inside
the fence `now` is more than `Drift` before the lease's end (`InsideTheLease`,
from `2 * Drift <= Guard`), so the own voter finds its grant alive on any clock
and refuses every challenger (`BackedRefuses`); a grant to itself carries the
round, because the own vote is cast only when it decides (`OwnVoteCarries`), so no
lost round replaces it.

`ElectionProofs` proves, from the same assumptions and without restarts
(`Restarting = {}`), for any cluster, policies, losses and delays:

* `EpochWonOnce`: `OneLeaderPerEpoch` always holds;
* `EpochsHaveOneAuthor`: `EpochHasOneAuthor` always holds;
* `CopiesMatch`: `LogsMatch` always holds.

A voter keeps only its newest grant, so the state does not say whom it granted an
older epoch. `Votable` says that some history of votes exists, with one vote per
voter and epoch, in which every voter's newest grant, every vote a round counts and
a majority behind every epoch won can be found. `Voter::carried` is the one step
that replaces a grant by another of the same epoch: the vote stays the other's, the
epoch is the winner's, and `NewestAgrees` allows for it. Two majorities meet, so a
second winner would need one vote twice. `WellAuthored` carries this to the logs:
what a node states, stamps or has written names an epoch its author won. For
`LogsMatch`, `FromAuthor` says that a record's author still holds it at the same
position and after the same history, which is why comparing the one record before
an append is enough.

`LeaseProofs` proves, `Steady` being no restarts and no policy but the first:

* `OneNodeWrites`: `OneWriter` always holds;
* `NewestWrites`: `WriterIsNewest` always holds.

Neither assumption can be dropped: with a restart or with a shortened policy the
code lets two nodes write (the disagreements above). Neither property is
inductive. `Fenced` adds `HoldsAlike` (one length of hold and lease everywhere),
`BallotsBehind` (no ballot is ahead of what its candidate stood at), `CountedHolds`
(a voter a round counts still has the grant it was counted for, or has gone past
it), `LedStands` (a majority has granted at or above every epoch won), and the two
that matter: `RoundsBacked` and `LeasesBacked`. While a lease runs on any clock, a
majority still holds its grants for the leader, no older than the lease, and no
rival round that can be carried counts one of them. A challenger's ballot finds
those voters held; a rival's win needs a majority, which meets this one. The hard
case is a win that overwrites its own voter's grant (`Voter::carried`), which may be
one some other round counts: that round is `Doomed`, a majority having promised
past it, so it can never be carried.

`RetentionProofs` proves, from `RetentionAssumption` alone and for any records,
values, readers and number of versions:

* `RetentionTyped`: `Spec => []TypeOK`;
* `MarkIsHonest`: `Spec => []ExactAboveMark`;
* `ProtectedForLife`: `Spec => StaysProtected`, an action property.

`ExactAboveMark` compares what is stored with the whole history and is not
inductive. `Inv` adds `FoldedBelowMark` (T's name is dropped only once the mark has
passed its other part), `OneAcross` (one version is T's), `CoveredT` (a version
removed under T's lies under another one that every reader is shown, so that T
being shown or passed over loses nothing) and `AllAccounted` (from the mark on, the
newest version to be found at any version is stored, or it was a tombstone and
nothing is stored under it). `Sweep` and `OtherPart` are the hard steps: the first
removes under a floor that becomes the mark, the second changes which versions
readers pass over without touching any.

The index has an argument of its own, `IndexInv`, and a theorem without hypotheses:

* `IndexLosesNothing`: `Spec => []IndexFindsOutsideT`.

`AllHeld` says that for every version from `since` on the entry of what was laid down
there is in the index, or is retired at a later version. A landing retires what it
takes away at its own version, which is above every version that wants it;
`TrimsBelowSince` says that the trimming removes only what was retired at or below
`since`, and `since` is raised before anything is removed. `AllKnow` carries this into
a search under way: one that does not merge was admitted at the tail; one that has seen
the newest version's removals has found, or finds among the entries that stand,
whatever was laid down at its reader's version; one that ended so has found it. `Laid`
is the newest version whoever wrote it, which is what a reader finds that passes
nothing over.

`AcrossProofs` proves, from `AcrossAssumption`, for any set of ranges, either way of
the driver, any trimmed logs, other writers and number of changes of leader:

* `WellTyped`: `TypeOK` always holds;
* `IntentsGuardReads`: `NoLostUpdate` always holds;
* `KeepsOnlyWhole`: `KeptIsWhole` always holds;

and, provided no ask outlives the forgetting of T's record (`~Lingers`):

* `CommitsInOneWay`: `OneOutcome` always holds;
* `AnswersStand`: `ToldIsKept` always holds.

The last two speak of T until a settle overtakes its begin, and `Lingers` breaks
`OneOutcome` (both are disagreements above), so neither condition can be dropped. There
are two invariants. `Safe` holds in every behaviour (`CommitsAreSure`): the types;
`Lasting`, what along a line stays once it is there; `Sure`, that whatever says
committed, a record, an ask, an answer or a verdict, rests on every part held by a
majority; and `Knows`, that what the driver has heard of a part is so. `Inv` and
`Reading`, what a settle under way may still write, hold until `overtaken` does
(`Evidence`).

`Inv` names the two outcomes as facts that no step undoes. T has `Won` once a majority
holds every part (the merged way) or the committed record (the other). It is
`Doomed(p)`, from place `p` of the record's line on, when nothing on its way can make
it win: a part is barred at a majority, or the record is absent or aborted from there
on and no begin, open or commit is under way. A change of leader may take back any
place a majority does not hold; an answer therefore carries the place it was given at,
and is used only if that place is still there (`Answers`), at a majority. The rest of
`Inv` says what each thing that can be found is evidence of: `Fates` (a part kept or
dropped), `Records` (a record at any place), `Asks` (an ask on its way, however late),
`Drives` (what the driver knows and has told), `Replied`, `Verdicts`, `Recovers` and
`Gathers` (an answer to the driver, to housekeeping, a recovery and a forgetting under
way). `Lines` says that along a line a part landed, barred or resolved stays so. The
hard steps are the answer of an abort by an absent record, which must not be taken for
one when the record was forgotten, and the forgetting itself, which removes the record
that `Won` would else be read from.

`AcrossReadsProofs` proves, from the same and `ReadsAssumption`:

* `SeenWhole`: `WholeWhileStanding` always holds;
* `NothingShownIsUndone`: `NeverDirty` always holds;
* `AnswersAreRead`: `AnsweredIsSeen` always holds.

Readers change nothing of T (`ReadersOnlyWatch`: `ReadSpec` implements `Spec`), so all
of the above is theirs, and like it ends where a settle overtakes the begin
(`ReadersLag`). `ReadInv` adds to `Inv` that a copy lags a majority (`Feeds`), the
snapshot lags the copies (`Snaps`) and what each lags in only grows (`Calm`); `Seeing`
says that a reader that sees T does so when T has won and its snapshot holds every
part, and that one that was answered and does not see T finds the record fallen: gone
or aborted over a part that landed, from which it does not rise again (`Later`). `Won`
lasts, so what was shown is never undone.

Only model-checked: `EveryWriterAnswered` and `Finished` (liveness under fairness is
outside the prover); `OneWriter` with a restart or a change of policy, within the
bounds of `lead_restarts`; the composition in `Acknowledgement`, whose run shows a
violation.

## Plan

What is still worth adding, in this order:

1. Theorems: `AckedIsKept` for rounds no longer than the guard, over `Leadership`'s
   fences; `OneWriter` with restarts, from the bound on a canvass; `OneOutcome` with a
   settle whose abort is refused over STAGING, once the code has one.
2. Re-seeding a parted follower, placed ranges (each a line of its own) and
   several records per answer, over `Acknowledgement`.
3. Pruning's two batches and the shard map's moves with the placement recheck of
   the commit path; queue claims.
4. Intents in `Retention`, and two passes at a time.

## Not modelled

Parsing, planning and evaluation, encodings, index kernels, protocol doors,
backup files, ingest and the command line: sequential or I/O code over unbounded
data, which the repository's own unit, conformance and fuzz tests cover better.

Not modelled yet, though it has state of its own: the shard map and its moves,
queue claims, topics and consumer groups, which are built on the commit path;
membership changes and the handing over of a range; re-seeding; a table's bounded
spaces. `PROJECT.json` says for each component what is left out.
