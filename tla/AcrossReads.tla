----------------------------- MODULE AcrossReads -----------------------------
(***************************************************************************)
(* A reading transaction on a node that holds copies of the ranges T wrote *)
(* (tessari-storage: transaction/visible.rs, lifecycle/versions.rs,        *)
(* decisions.rs; tessaridb: across.rs, LeadersDecide).                     *)
(*                                                                         *)
(* The copies apply what a majority holds, each at its own pace; leaders   *)
(* stay, and nobody else writes.  The reader's snapshot is where each copy *)
(* was when it began: the versions it reads are stored now, at or below    *)
(* that.  A version of T is shown when the node finds T committed and the  *)
(* snapshot holds every part of it; the answer is found once and kept.     *)
(***************************************************************************)
EXTENDS Across

ASSUME ReadsAssumption == None \notin BOOLEAN /\ None \notin {"read", "other", "T"}

VARIABLES
    feed,       \* what each copy has applied, followed by what it has yet to
    snap,       \* the reader's snapshot: what each copy had applied
    sees,       \* whether the reader sees T, once decided (Transaction::decided)
    saw,        \* what it read in each range
    after,      \* history: what T's caller had been told when the reader began
    unheard     \* history: whether an ask of the reader went unanswered

readerVars == <<snap, sees, saw, after, unheard>>

Copy(r) == Head(feed[r])

\* A majority holds more of range r's line, and the copy will collect it.
Collect(r) ==
    /\ Replicate(r)
    /\ feed' = [feed EXCEPT ![r] = @ \o SubSeq(line[r], 2, 1 + Len(line[r]) - Len(line'[r]))]
    /\ UNCHANGED readerVars

\* The copy of range r applies one more record.
CopyApplies(r) ==
    /\ Len(feed[r]) > 1
    /\ feed' = [feed EXCEPT ![r] = Tail(@)]
    /\ UNCHANGED <<vars, readerVars>>

\* The reader begins.
BeginRead ==
    /\ snap = None
    /\ snap' = [r \in Ranges |-> Copy(r)]
    /\ after' = told
    /\ UNCHANGED <<vars, feed, sees, saw, unheard>>

\* Mutant: what T's record says is enough.
HoldsAnyPart == \E r \in Ranges : snap[r].landed

\* Whether the snapshot holds T's part in every range (holds_every_part).
HoldsEveryPart == \A r \in Ranges : snap[r].landed

\* Mutant: only a written decision counts.
LeaderKnowsDecided == Kept(Coord).rec # None /\ Kept(Coord).rec.is = "committed"

\* What Coord's leader answers a reader: a decision a majority holds, and T
\* committed implicitly once a majority holds every part (LeadersDecide).
LeaderKnowsCommitted ==
    /\ Kept(Coord).rec # None
    /\ \/ Kept(Coord).rec.is = "committed"
       \/ Kept(Coord).rec.is = "staging" /\ \A r \in Ranges : Kept(r).landed

\* Mutant: an intent is shown while nobody has decided.
SeesUndecided(answered) == ~Decided(Copy(Coord).rec) \/ Copy(Coord).rec.is = "committed"

\* Whether a reader that finds T's intent sees T: by the record this node holds,
\* and while that has not decided, by the answer of the record's leader.
SeesIntent(answered) ==
    LET rec == Copy(Coord).rec IN
    /\ IF Decided(rec) THEN rec.is = "committed" ELSE answered /\ LeaderKnowsCommitted
    /\ HoldsEveryPart

\* Whether a version of T is stored in range r at or below the snapshot: the
\* intent, until its resolution deletes it, or the version that resolved it.
IntentStored(r) == snap[r].intent /\ Copy(r).intent
VersionStored(r) == snap[r].value = "T"

\* Whether the reader that finds a version of T in r sees T: as it has decided
\* before; by T's record while the version is an intent (sees).
Finds(r, answered) ==
    IF sees # None THEN sees
    ELSE IF IntentStored(r) THEN SeesIntent(answered) ELSE HoldsEveryPart

\* The reader reads T's record in r (first_in_range, passes_over).
Read(r) ==
    /\ snap # None /\ saw[r] = None
    /\ \E answered \in BOOLEAN :
          LET now == Finds(r, answered)
              asks == sees = None /\ IntentStored(r) /\ ~Decided(Copy(Coord).rec)
          IN  /\ sees' = IF IntentStored(r) \/ VersionStored(r) THEN now ELSE sees
              /\ saw' = [saw EXCEPT ![r] = CASE IntentStored(r) /\ now -> "T"
                                             [] VersionStored(r) /\ ~now -> "read"
                                             [] OTHER -> snap[r].value]
              /\ unheard' = (unheard \/ (asks /\ ~answered))
    /\ UNCHANGED <<vars, feed, snap, after>>

ReadInit ==
    /\ Init
    /\ feed = [r \in Ranges |-> <<Untouched>>]
    /\ snap = None /\ sees = None /\ saw = [r \in Ranges |-> None]
    /\ after = None /\ unheard = FALSE

ReadNext ==
    \/ (Driver \/ Leader \/ House \/ Lapse) /\ UNCHANGED <<feed, readerVars>>
    \/ \E r \in Ranges : Collect(r) \/ CopyApplies(r) \/ Read(r)
    \/ BeginRead

ReadSpec == ReadInit /\ [][ReadNext]_<<vars, feed, readerVars>>

---------------------------------------------------------------------------
(* Properties.                                                             *)

Torn == \E r, s \in Ranges : saw[r] = "T" /\ saw[s] = "read"

\* Every intent the snapshot holds still stands in the copies.
StillStanding == snap # None /\ \A r \in Ranges : snap[r].intent => Copy(r).intent

\* A reading transaction sees T whole or not at all (visible.rs: "whole, or not at
\* all, decided once").
WholeOrNothing == ~Torn

\* ... as long as no copy has resolved an intent its snapshot holds and no settle
\* overtook T's begin: the decision kept for the transaction's life and the part
\* markers make lagging copies agree.
WholeWhileStanding == ~overtaken /\ StillStanding => ~Torn

\* What a reader was shown of T is held for good and never undone, unless a settle
\* overtook T's begin: no range drops T's writes, and the caller is not told T
\* aborted (D14e: a reader counts only on held parts).
NeverDirty ==
    ~overtaken /\ (\E r \in Ranges : saw[r] = "T") =>
        /\ told = "aborted" => looked
        /\ \A r \in Ranges : Tip(r).fate # "dropped" /\ Kept(r).landed

RecordStands == Kept(Coord).rec # None /\ Kept(Coord).rec.is \in {"staging", "committed"}

\* A reader that begins after the caller was told T committed, on copies that hold
\* every part, sees T though no resolution has landed yet, until the record is
\* forgotten (D13d) and unless a settle overtook T's begin.
AnsweredIsSeen ==
    (~overtaken /\ StillStanding /\ after = "committed" /\ HoldsEveryPart /\ ~unheard /\ RecordStands) =>
        \A r \in Ranges : saw[r] # "read"
=============================================================================
