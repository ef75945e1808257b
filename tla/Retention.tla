------------------------------ MODULE Retention ------------------------------
(***************************************************************************)
(* What a store keeps of its past, and who may read it (tessari-storage:   *)
(* snapshots.rs, reclaim.rs, intents/folding.rs, intents/unsettled.rs,     *)
(* retired.rs, landed.rs, store/parts.rs, transaction/lifecycle.rs and     *)
(* lifecycle/versions.rs).                                                 *)
(*                                                                         *)
(* Every commit writes a version.  A reading transaction chooses a version *)
(* and then registers it; a pass of reclamation reads the oldest version   *)
(* registered and then removes what no reader from there on resolves to.   *)
(* One table, one plain index whose entries one batch of a scan holds, one *)
(* pass of each kind at a time.                                            *)
(*                                                                         *)
(* One of the writes may be T's, a transaction across leaders: it lands    *)
(* here as a version that names T, and readers pass it over until T's      *)
(* other part has landed here too.                                         *)
(***************************************************************************)
EXTENDS Integers, Sequences

CONSTANTS
    Records, Values,
    Readers,        \* transactions that only read
    Gone,           \* what a tombstone says
    None,
    MaxVersion      \* bound: versions written

ASSUME RetentionAssumption ==
    /\ Gone \notin Values /\ None \notin Records
    /\ MaxVersion \in Nat

VARIABLES
    log,        \* history: what each version wrote, from the first on
    stored,     \* the versions still stored
    folded,     \* whether T's version has lost T's name
    whole,      \* the version at which T's other part landed here; 0, not yet
    entries,    \* the index: a record and a value it is found under
    retired,    \* what removed entries said, and the version that removed them
    landed,     \* the newest version published to those that begin
    mark,       \* the reclaim floor: reads below it are refused
    since,      \* from which version on retired entries are complete
    reader,     \* each reader's step and its version
    search,     \* each reader's search of the index
    pass,       \* the floor of the pass of reclamation under way
    trim        \* the pass over retired entries under way: its floor, and whether
                \* it has raised `since' to it

dataVars == <<log, stored, folded, whole, entries, retired, landed>>
vars == <<dataVars, mark, since, reader, search, pass, trim>>

\* The newest version written (committed_version).
Committed == Len(log)

---------------------------------------------------------------------------
(* Reading.                                                                *)

\* Whether a stored version names T.
Named(v) == log[v].across /\ ~folded

\* Whether a snapshot at `at' holds T's other part.
HoldsWhole(at) == whole \in 1 .. at

\* The versions of rec a reader at `at' does not pass over (passes_over).
Shown(rec, at) ==
    {v \in stored : log[v].rec = rec /\ v <= at /\ (Named(v) => HoldsWhole(at))}

Newest(versions) == {v \in versions : \A u \in versions : u <= v}

\* What the newest of them says: a value, or none (first_in_range).
Says(versions) == {log[v].val : v \in Newest(versions)} \ {Gone}
Reads(rec, at) == Says(Shown(rec, at))

\* Whether T has resolved here while its other part has not landed (across_unsettled).
Unsettled == whole = 0 /\ \E v \in 1 .. Committed : log[v].across

\* Whether a reader at `at' uses the index: at the tail, and behind it once retired
\* entries are complete from there on (indexes_are_current_for,
\* plain_indexes_serve_behind_the_tail).
IndexServes(at) == ~Unsettled /\ (at = Committed \/ at >= since)

Entry(rec, val) == [rec |-> rec, val |-> val]

---------------------------------------------------------------------------
(* Commits.                                                                *)

Write(rec, val, across) == [rec |-> rec, val |-> val, across |-> across]

\* The record's value was `previous' as far as the index knows, and becomes val
\* (index::maintain): the entry it loses is kept as retired.
Maintain(rec, val, previous) ==
    LET lost == {Entry(rec, old) : old \in previous}
        won  == {Entry(rec, val)} \ {Entry(rec, Gone)}
    IN  /\ entries' = (entries \ lost) \cup won
        /\ retired' = retired \cup {[entry |-> e, at |-> Committed + 1] : e \in lost \ won}

\* A version lands with what it derives.
Lands(rec, val, across, previous) ==
    /\ Committed < MaxVersion
    /\ log' = Append(log, Write(rec, val, across))
    /\ stored' = stored \cup {Committed + 1}
    /\ Maintain(rec, val, previous)
    /\ UNCHANGED <<folded, whole, landed, mark, since, reader, search, pass, trim>>

\* A commit, here or at the leader whose log this node applies.  What the record
\* was is read as a reader of this node would.
Commit(rec, val) == Lands(rec, val, FALSE, Reads(rec, Committed))

\* T's resolution.  The intent it replaces is itself what the record was, when T's
\* record here says committed and every part has landed here.
Resolution(rec, val) ==
    /\ \A v \in 1 .. Committed : ~log[v].across
    /\ \E recorded \in BOOLEAN :
          Lands(rec, val, TRUE, IF recorded /\ HoldsWhole(Committed) THEN {val} \ {Gone}
                                ELSE Reads(rec, Committed))

\* T's other part lands, in a table of its own.
OtherPart ==
    /\ Committed < MaxVersion /\ whole = 0
    /\ log' = Append(log, Write(None, Gone, FALSE))
    /\ whole' = Committed + 1
    /\ UNCHANGED <<stored, folded, entries, retired, landed, mark, since, reader, search, pass,
                   trim>>

\* Mutant: a version is published before it has landed.
LandEarly ==
    /\ landed < Committed
    /\ landed' = Committed + 1
    /\ UNCHANGED <<log, stored, folded, whole, entries, retired, mark, since, reader, search, pass,
                   trim>>

\* A committer publishes what has landed (landed_at).
Land ==
    /\ landed < Committed
    /\ landed' \in landed + 1 .. Committed
    /\ UNCHANGED <<log, stored, folded, whole, entries, retired, mark, since, reader, search, pass,
                   trim>>

---------------------------------------------------------------------------
(* Readers.                                                                *)

Idle == [step |-> "idle", at |-> 0]
NoSearch == [step |-> "none", merges |-> FALSE, seen |-> 0, found |-> {}]

Chooses(r, at) ==
    /\ reader[r].step = "idle"
    /\ reader' = [reader EXCEPT ![r] = [step |-> "chosen", at |-> at]]
    /\ UNCHANGED <<dataVars, mark, since, search, pass, trim>>

\* Store::begin: a reader takes the newest version published, the holder of the
\* write turn the newest there is.
Begin(r) == \E at \in {landed, Committed} : Chooses(r, at)

\* Store::begin_at: a version someone named.
BeginAt(r) == \E at \in mark .. Committed : Chooses(r, at)

\* Transaction::new.
Register(r) ==
    /\ reader[r].step = "chosen"
    /\ reader' = [reader EXCEPT ![r].step = "live"]
    /\ UNCHANGED <<dataVars, mark, since, search, pass, trim>>

\* The transaction is dropped, a search under way with it.
Release(r) ==
    /\ reader[r].step = "live"
    /\ reader' = [reader EXCEPT ![r] = Idle]
    /\ search' = [search EXCEPT ![r] = NoSearch]
    /\ UNCHANGED <<dataVars, mark, since, pass, trim>>

---------------------------------------------------------------------------
(* A search of the index: admitted, then the retired entries, then those   *)
(* that stand, each step a read of its own with commits between them.      *)

\* The index may serve, and the search will merge retired entries when the reader
\* is behind the tail now (declared_for; the flag retired_reads).
Admit(r) ==
    LET at == reader[r].at
    IN  /\ reader[r].step = "live"
        /\ search[r].step \notin {"admitted", "merged"}
        /\ IndexServes(at)
        /\ search' = [search EXCEPT ![r] = [step |-> "admitted", merges |-> at < Committed,
                                            seen |-> at, found |-> {}]]
    /\ UNCHANGED <<dataVars, mark, since, reader, pass, trim>>

\* The entries retired above the reader's version, if it merges any
\* (retired_candidates).
Retired(r) ==
    {e.entry : e \in {d \in retired : search[r].merges /\ d.at > reader[r].at}}

MergeRetired(r) ==
    /\ search[r].step = "admitted"
    /\ search' = [search EXCEPT ![r] =
                      [step |-> "merged", merges |-> search[r].merges,
                       seen |-> IF search[r].merges THEN Committed ELSE search[r].seen,
                       found |-> Retired(r)]]
    /\ UNCHANGED <<dataVars, mark, since, reader, pass, trim>>

\* The entries that stand (records_in_range, ids_in_range).  The search was overtaken
\* when a commit landed since the last version whose removals it has seen.
ScanLive(r) ==
    /\ search[r].step = "merged"
    /\ search' = [search EXCEPT ![r] =
                      [step |-> IF search[r].seen = Committed THEN "done" ELSE "overtaken",
                       merges |-> FALSE, seen |-> 0, found |-> search[r].found \cup entries]]
    /\ UNCHANGED <<dataVars, mark, since, reader, pass, trim>>

---------------------------------------------------------------------------
(* Reclamation.                                                            *)

Registered == {reader[r].at : r \in {q \in Readers : reader[q].step = "live"}}

\* Mutant: whoever begins next is all that counts.
IsFloorOfNext(floor) == floor = landed

\* The oldest version a reader has registered; none, the newest published
\* (retention_floor).
IsFloor(floor) ==
    IF Registered = {} THEN floor = landed
    ELSE floor \in Registered /\ \A at \in Registered : floor <= at

Max(m, n) == IF m > n THEN m ELSE n

\* A pass begins (reclaim_table).
PassBegins ==
    /\ pass = None
    /\ \E floor \in 0 .. Committed : IsFloor(floor) /\ pass' = [floor |-> floor]
    /\ UNCHANGED <<dataVars, mark, since, reader, search, trim>>

\* T's version loses T's name once the floor has passed both its parts; intents
\* of T left elsewhere may put it off to a later pass (fold_settled_across).
Fold ==
    /\ pass # None
    /\ ~folded /\ \E v \in 1 .. Committed : log[v].across
    /\ HoldsWhole(pass.floor)
    /\ folded' = TRUE
    /\ mark' = Max(mark, pass.floor)
    /\ UNCHANGED <<log, stored, whole, entries, retired, landed, since, reader, search, pass, trim>>

\* Mutant: a version that names T covers those under it.
RemovableUnderT(floor) ==
    LET below(rec) == {v \in stored : log[v].rec = rec /\ v <= floor}
    IN  {v \in stored : v <= floor /\ \E u \in below(log[v].rec) : u > v}

\* What the pass removes: at or below the floor, every version under the newest
\* that does not name T, and that one too when it is a tombstone with none above.
Removable(floor) ==
    LET below(rec) == {v \in stored : log[v].rec = rec /\ v <= floor}
        covered(v) == \E u \in below(log[v].rec) : u > v /\ ~Named(u)
        spent(v)   == ~Named(v) /\ log[v].val = Gone /\ v \in Newest(below(log[v].rec))
    IN  {v \in stored : v <= floor /\ (covered(v) \/ spent(v))}

\* The pass's batch: the removals, and the mark raised with them, when there are
\* any.  What the pass scanned has not changed: commits write above the floor.
Sweep ==
    /\ pass # None
    /\ pass' = None
    /\ stored' = stored \ Removable(pass.floor)
    /\ mark' = IF stored' = stored THEN mark ELSE Max(mark, pass.floor)
    /\ UNCHANGED <<log, folded, whole, entries, retired, landed, since, reader, search, trim>>

\* A pass over the retired entries begins (reclaim_retired_entries).
TrimBegins ==
    /\ trim = None
    /\ \E floor \in 0 .. Committed : IsFloor(floor) /\ trim' = [floor |-> floor, raised |-> FALSE]
    /\ UNCHANGED <<dataVars, mark, since, reader, search, pass>>

\* Mutant: entries are trimmed and reads below the floor still served from the rest.
TrimUnraised ==
    /\ trim # None /\ ~trim.raised
    /\ trim' = [trim EXCEPT !.raised = TRUE]
    /\ UNCHANGED <<dataVars, mark, since, reader, search, pass>>

\* It raises `since' to its floor before it removes any.
TrimRaises ==
    /\ trim # None /\ ~trim.raised
    /\ trim' = [trim EXCEPT !.raised = TRUE]
    /\ since' = Max(since, trim.floor)
    /\ UNCHANGED <<dataVars, mark, reader, search, pass>>

\* It removes, batch after batch, the entries retired at or below the floor.
Trim ==
    /\ trim # None /\ trim.raised
    /\ \E e \in retired : e.at <= trim.floor /\ retired' = retired \ {e}
    /\ UNCHANGED <<log, stored, folded, whole, entries, landed, mark, since, reader, search, pass,
                   trim>>

TrimEnds ==
    /\ trim # None /\ trim.raised
    /\ \A e \in retired : e.at > trim.floor
    /\ trim' = None
    /\ UNCHANGED <<dataVars, mark, since, reader, search, pass>>

\* The process dies and the store is opened again.
Reopen ==
    /\ landed' = Committed
    /\ reader' = [r \in Readers |-> Idle]
    /\ search' = [r \in Readers |-> NoSearch]
    /\ pass' = None /\ trim' = None
    /\ UNCHANGED <<log, stored, folded, whole, entries, retired, mark, since>>

---------------------------------------------------------------------------
Init ==
    /\ log = <<>> /\ stored = {} /\ folded = FALSE /\ whole = 0
    /\ entries = {} /\ retired = {}
    /\ landed = 0 /\ mark = 0 /\ since = 0
    /\ reader = [r \in Readers |-> Idle]
    /\ search = [r \in Readers |-> NoSearch]
    /\ pass = None /\ trim = None

Next ==
    \/ \E rec \in Records, val \in Values \cup {Gone} : Commit(rec, val) \/ Resolution(rec, val)
    \/ OtherPart \/ Land
    \/ \E r \in Readers : \/ Begin(r) \/ BeginAt(r) \/ Register(r) \/ Release(r)
                          \/ Admit(r) \/ MergeRetired(r) \/ ScanLive(r)
    \/ PassBegins \/ Fold \/ Sweep
    \/ TrimBegins \/ TrimRaises \/ Trim \/ TrimEnds
    \/ Reopen

Spec == Init /\ [][Next]_vars

---------------------------------------------------------------------------
(* Properties.                                                             *)

\* Every variable has the shape the code gives it.
TypeOK ==
    /\ log \in Seq([rec : Records \cup {None}, val : Values \cup {Gone}, across : BOOLEAN])
    /\ stored \subseteq 1 .. Committed /\ folded \in BOOLEAN /\ whole \in 0 .. Committed
    /\ entries \subseteq [rec : Records, val : Values]
    /\ retired \subseteq [entry : [rec : Records, val : Values], at : 1 .. Committed]
    /\ landed \in 0 .. Committed /\ mark \in 0 .. Committed /\ since \in 0 .. Committed
    /\ reader \in [Readers -> [step : {"idle", "chosen", "live"}, at : 0 .. Committed]]
    /\ search \in [Readers -> [step : {"none", "admitted", "merged", "done", "overtaken"},
                               merges : BOOLEAN, seen : 0 .. Committed,
                               found : SUBSET [rec : Records, val : Values]]]
    /\ pass # None => pass.floor \in 0 .. Committed
    /\ trim # None => trim.floor \in 0 .. Committed /\ trim.raised \in BOOLEAN

\* What a reader at `at' would read had nothing ever been removed.
Written(rec, at) ==
    {v \in 1 .. Committed : log[v].rec = rec /\ v <= at /\ (log[v].across => HoldsWhole(at))}
Past(rec, at) == Says(Written(rec, at))

\* The mark is honest (reclaim.rs: "the oldest sequence a read can still be answered
\* at exactly"): from it on, every version answers as if nothing had been removed or
\* folded, tombstones and T's writes included, after any crash between two steps.
ExactAboveMark ==
    \A rec \in Records, at \in mark .. Committed : Reads(rec, at) = Past(rec, at)

\* Whether reader r is registered, and neither the mark nor a pass under way is
\* above its version.
Protected(r) ==
    /\ reader[r].step = "live"
    /\ mark <= reader[r].at
    /\ pass # None => pass.floor <= reader[r].at

\* A transaction that registered before the mark or a pass moved above its version
\* reads that version exactly for as long as it lives (snapshots.rs, retention_floor).
StaysProtected ==
    [][\A r \in Readers : Protected(r) /\ reader'[r] = reader[r] => Protected(r)']_vars

\* Whether T's version is stored at or below `at' and passed over there.
PassedOver(at) == ~HoldsWhole(at) /\ \E v \in 1 .. at : log[v].across

\* A search no commit overtook finds every record a scan would, where no write of T
\* is passed over (retired.rs: "a SUPERSET of the records that matched at S"): an entry
\* is retired before it is trimmed, `since' is raised before any is, and none is
\* trimmed that a version from `since' on needs.  An overtaken search may miss some.
IndexFindsOutsideT ==
    \A r \in Readers :
        search[r].step = "done" /\ since <= reader[r].at /\ ~PassedOver(reader[r].at) =>
            \A rec \in Records : \A val \in Past(rec, reader[r].at) :
                Entry(rec, val) \in search[r].found
=============================================================================
