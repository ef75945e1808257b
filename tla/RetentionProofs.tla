--------------------------- MODULE RetentionProofs ---------------------------
(***************************************************************************)
(* Proofs about Retention, for every set of records, values and readers.   *)
(*                                                                         *)
(* The mark is honest because of what a pass leaves: from the mark on, the *)
(* newest version a reader should find is stored, or it was a tombstone    *)
(* and nothing of the record is stored under it.  To keep that through the *)
(* landing of T's other part, which shows a version so far passed over,    *)
(* a version of T that a pass removed must lie under one that is not T's.  *)
(***************************************************************************)
EXTENDS Retention, TLAPS

Writes == [rec : Records \cup {None}, val : Values \cup {Gone}, across : BOOLEAN]

\* Searches of a store that has written n versions.
Searches(n) == [step : {"none", "admitted", "merged", "done", "overtaken"}, merges : BOOLEAN,
                seen : 0 .. n, found : SUBSET [rec : Records, val : Values]]

\* The newest version a reader at `at' should find is stored; or it was a tombstone
\* and nothing of the record is stored at or under it.
NewestStored(rec, at) == \E n \in stored : n \in Newest(Written(rec, at))
NewestSpent(rec, at) ==
    \E t \in Newest(Written(rec, at)) :
        /\ log[t].val = Gone
        /\ \A y \in stored : log[y].rec = rec /\ y <= at => y > t

Accounted(rec, at) ==
    Written(rec, at) = {} \/ NewestStored(rec, at) \/ NewestSpent(rec, at)

AllAccounted == \A rec \in Records, at \in mark .. Committed : Accounted(rec, at)

\* T's version loses T's name only below the mark.
FoldedBelowMark == folded => whole \in 1 .. mark

OneAcross == \A u, v \in 1 .. Committed : log[u].across /\ log[v].across => u = v

\* A version of T is removed only from under one that is not T's.
CoveredT ==
    ~folded => \A v \in 1 .. Committed : log[v].across /\ v \notin stored =>
                   \E u \in 1 .. Committed : u > v /\ log[u].rec = log[v].rec /\ ~log[u].across

Inv == TypeOK /\ FoldedBelowMark /\ OneAcross /\ CoveredT /\ AllAccounted

---------------------------------------------------------------------------
(* What the log holds after one more version.                              *)

LEMMA Grown ==
    ASSUME TypeOK, NEW e \in Writes, log' = Append(log, e)
    PROVE  /\ log' \in Seq(Writes)
           /\ Committed' = Committed + 1
           /\ \A v \in 1 .. Committed : log'[v] = log[v]
           /\ log'[Committed + 1] = e
  BY DEF TypeOK, Writes, Committed

LEMMA Typed ==
    ASSUME TypeOK
    PROVE  /\ Committed \in Nat /\ stored \subseteq 1 .. Committed
           /\ \A v \in 1 .. Committed : log[v] \in Writes
           /\ folded \in BOOLEAN /\ whole \in 0 .. Committed /\ mark \in 0 .. Committed
<1>1. log \in Seq(Writes)
  BY DEF TypeOK, Writes
<1>2. Committed \in Nat /\ \A v \in 1 .. Committed : log[v] \in Writes
  BY <1>1 DEF Committed
<1> QED
  BY <1>2 DEF TypeOK

---------------------------------------------------------------------------
(* Type correctness.                                                       *)

LEMMA InitTyped == Init => TypeOK
<1> SUFFICES ASSUME Init PROVE TypeOK
  OBVIOUS
<1>1. Committed = 0
  BY DEF Init, Committed
<1>2. log \in Seq(Writes)
  BY DEF Init
<1>3. reader \in [Readers -> [step : {"idle", "chosen", "live"}, at : 0 .. Committed]]
  BY <1>1 DEF Init, Idle
<1>4. /\ stored \subseteq 1 .. Committed /\ whole \in 0 .. Committed
      /\ landed \in 0 .. Committed /\ mark \in 0 .. Committed /\ since \in 0 .. Committed
  BY <1>1 DEF Init
<1>7. search \in [Readers -> Searches(Committed)]
  BY <1>1 DEF Init, NoSearch, Searches
<1>6. folded \in BOOLEAN /\ ~(pass # None) /\ ~(trim # None)
  BY DEF Init
<1>5. /\ entries \subseteq [rec : Records, val : Values]
      /\ retired \subseteq [entry : [rec : Records, val : Values], at : 1 .. Committed]
  BY DEF Init
<1> QED
  BY <1>2, <1>3, <1>4, <1>5, <1>6, <1>7 DEF TypeOK, Writes, Searches

LEMMA FloorTyped == ASSUME TypeOK, NEW r \in Readers PROVE reader[r].at \in 0 .. Committed
  BY DEF TypeOK

\* The entries a landing leaves are entries.
LEMMA MaintainTyped ==
    ASSUME TypeOK, NEW rec \in Records, NEW val \in Values \cup {Gone},
           NEW previous \in SUBSET Values, Maintain(rec, val, previous),
           Committed' = Committed + 1
    PROVE  /\ entries' \subseteq [rec : Records, val : Values]
           /\ retired' \subseteq [entry : [rec : Records, val : Values], at : 1 .. Committed']
<1>1. Committed \in Nat
  BY Typed
<1>2. \A old \in Values : Entry(rec, old) \in [rec : Records, val : Values]
  BY DEF Entry
<1>3. {Entry(rec, old) : old \in previous} \subseteq [rec : Records, val : Values]
  BY <1>2
<1>4. val # Gone => Entry(rec, val) \in [rec : Records, val : Values]
  BY <1>2
<1>5. entries \subseteq [rec : Records, val : Values]
  BY DEF TypeOK
<1>6. entries' \subseteq [rec : Records, val : Values]
  BY <1>3, <1>4, <1>5 DEF Maintain, Entry
<1>7. \A e \in {Entry(rec, old) : old \in previous} :
          [entry |-> e, at |-> Committed + 1]
              \in [entry : [rec : Records, val : Values], at : 1 .. Committed']
  BY <1>1, <1>3
<1>8. retired \subseteq [entry : [rec : Records, val : Values], at : 1 .. Committed']
  BY <1>1 DEF TypeOK
<1> QED
  BY <1>6, <1>7, <1>8 DEF Maintain

LEMMA SaysTyped == ASSUME TypeOK, NEW rec, NEW at PROVE Reads(rec, at) \subseteq Values
<1>1. \A v \in Shown(rec, at) : log[v].val \in Values \cup {Gone}
  BY Typed DEF Shown, Writes
<1> QED
  BY <1>1 DEF Reads, Says, Newest

\* The rest of the state is what it was while one more version is written.
LEMMA RestTyped ==
    ASSUME TypeOK, Committed' = Committed + 1,
           UNCHANGED <<folded, landed, mark, since, reader, search, pass, trim>>
    PROVE  /\ folded' \in BOOLEAN /\ landed' \in 0 .. Committed'
           /\ mark' \in 0 .. Committed' /\ since' \in 0 .. Committed'
           /\ reader' \in [Readers -> [step : {"idle", "chosen", "live"}, at : 0 .. Committed']]
           /\ search' \in [Readers -> Searches(Committed')]
           /\ pass' # None => pass'.floor \in 0 .. Committed'
           /\ trim' # None => trim'.floor \in 0 .. Committed' /\ trim'.raised \in BOOLEAN
<1>1. Committed \in Nat
  BY Typed
<1>2. 0 .. Committed \subseteq 0 .. Committed'
  BY <1>1
<1>3. [step : {"idle", "chosen", "live"}, at : 0 .. Committed]
          \subseteq [step : {"idle", "chosen", "live"}, at : 0 .. Committed']
  BY <1>2
<1>4. reader \in [Readers -> [step : {"idle", "chosen", "live"}, at : 0 .. Committed]]
  BY DEF TypeOK
<1>5. reader' \in [Readers -> [step : {"idle", "chosen", "live"}, at : 0 .. Committed']]
  BY <1>3, <1>4
<1>6. search \in [Readers -> Searches(Committed)]
  BY DEF TypeOK, Searches
<1>7. Searches(Committed) \subseteq Searches(Committed')
  BY <1>2 DEF Searches
<1>8. search' \in [Readers -> Searches(Committed')]
  BY <1>6, <1>7
<1> QED
  BY <1>1, <1>2, <1>5, <1>8 DEF TypeOK

LEMMA LandsTyped ==
    ASSUME TypeOK, NEW rec \in Records, NEW val \in Values \cup {Gone}, NEW across \in BOOLEAN,
           NEW previous \in SUBSET Values, Lands(rec, val, across, previous)
    PROVE  TypeOK'
<1>1. Write(rec, val, across) \in Writes
  BY DEF Write, Writes
<1>2. log' \in Seq(Writes) /\ Committed' = Committed + 1
  BY <1>1, Grown DEF Lands
<1>3. /\ entries' \subseteq [rec : Records, val : Values]
      /\ retired' \subseteq [entry : [rec : Records, val : Values], at : 1 .. Committed']
  BY <1>2, MaintainTyped DEF Lands
<1>4. stored' \subseteq 1 .. Committed' /\ whole' \in 0 .. Committed'
  BY <1>2, Typed DEF Lands
<1> QED
  BY <1>2, <1>3, <1>4, RestTyped DEF Lands, TypeOK, Writes, Searches

LEMMA OtherPartTyped == ASSUME TypeOK, OtherPart PROVE TypeOK'
<1>1. Write(None, Gone, FALSE) \in Writes
  BY DEF Write, Writes
<1>2. log' \in Seq(Writes) /\ Committed' = Committed + 1
  BY <1>1, Grown DEF OtherPart
<1>3. stored' \subseteq 1 .. Committed' /\ whole' \in 0 .. Committed'
  BY <1>2, Typed DEF OtherPart
<1>4. /\ entries' \subseteq [rec : Records, val : Values]
      /\ retired' \subseteq [entry : [rec : Records, val : Values], at : 1 .. Committed']
  <2>1. 1 .. Committed \subseteq 1 .. Committed'
    BY <1>2, Typed
  <2> QED
    BY <2>1 DEF TypeOK, OtherPart
<1> QED
  BY <1>2, <1>3, <1>4, RestTyped DEF OtherPart, TypeOK, Writes, Searches

LEMMA RegisteredTyped == ASSUME TypeOK PROVE Registered \subseteq 0 .. Committed
  BY DEF TypeOK, Registered

\* What a reader's search finds are entries.
LEMMA SearchTyped ==
    ASSUME TypeOK, NEW r \in Readers, Admit(r) \/ MergeRetired(r) \/ ScanLive(r)
    PROVE  search' \in [Readers -> Searches(Committed)]
<1>1. search \in [Readers -> Searches(Committed)] /\ Committed \in 0 .. Committed
  BY Typed DEF TypeOK, Searches
<1>2. reader[r].at \in 0 .. Committed
  BY FloorTyped
<1>3. Retired(r) \subseteq [rec : Records, val : Values]
  BY DEF Retired, TypeOK
<1>4. entries \subseteq [rec : Records, val : Values]
  BY DEF TypeOK
<1>5. CASE Admit(r)
  BY <1>1, <1>2, <1>5 DEF Admit, Searches
<1>6. CASE MergeRetired(r)
  BY <1>1, <1>3, <1>6 DEF MergeRetired, Searches
<1>7. CASE ScanLive(r)
  <2>1. search[r].found \cup entries \subseteq [rec : Records, val : Values]
    BY <1>1, <1>4 DEF Searches
  <2>2. PICK s : s = [step |-> IF search[r].seen = Committed THEN "done" ELSE "overtaken",
                      merges |-> FALSE, seen |-> 0, found |-> search[r].found \cup entries]
    OBVIOUS
  <2>3. s \in Searches(Committed)
    BY <1>1, <2>1, <2>2 DEF Searches
  <2>4. search' = [search EXCEPT ![r] = s]
    BY <1>7, <2>2 DEF ScanLive
  <2> QED
    BY <1>1, <2>3, <2>4
<1> QED
  BY <1>5, <1>6, <1>7

\* A step that leaves the log alone keeps every type.
LEMMA NextTyped == ASSUME TypeOK, [Next]_vars PROVE TypeOK'
<1> USE DEF dataVars, vars
<1>1. ASSUME NEW rec \in Records, NEW val \in Values \cup {Gone}, Commit(rec, val)
      PROVE  TypeOK'
  <2>1. Reads(rec, Committed) \in SUBSET Values
    BY SaysTyped
  <2> QED
    BY <1>1, <2>1, LandsTyped DEF Commit
<1>2. ASSUME NEW rec \in Records, NEW val \in Values \cup {Gone}, Resolution(rec, val)
      PROVE  TypeOK'
  <2>1. PICK recorded \in BOOLEAN :
          Lands(rec, val, TRUE, IF recorded /\ HoldsWhole(Committed) THEN {val} \ {Gone}
                                ELSE Reads(rec, Committed))
    BY <1>2 DEF Resolution
  <2>2. (IF recorded /\ HoldsWhole(Committed) THEN {val} \ {Gone} ELSE Reads(rec, Committed))
            \in SUBSET Values
    BY SaysTyped
  <2> QED
    BY <2>1, <2>2, LandsTyped
<1>3. CASE OtherPart
  BY <1>3, OtherPartTyped
<1>4. ASSUME UNCHANGED log PROVE Committed' = Committed
  BY <1>4 DEF Committed
<1>5. CASE Land
  BY <1>4, <1>5, Typed DEF Land, TypeOK
<1>6. ASSUME NEW r \in Readers, NEW at \in 0 .. Committed, Chooses(r, at) PROVE TypeOK'
  <2>1. reader' \in [Readers -> [step : {"idle", "chosen", "live"}, at : 0 .. Committed]]
    BY <1>6 DEF Chooses, TypeOK
  <2> QED
    BY <1>4, <1>6, <2>1 DEF Chooses, TypeOK
<1>7. ASSUME NEW r \in Readers, Begin(r) \/ BeginAt(r) PROVE TypeOK'
  <2>1. \A at \in {landed, Committed} \cup (mark .. Committed) : at \in 0 .. Committed
    BY Typed DEF TypeOK
  <2> QED
    BY <1>6, <1>7, <2>1 DEF Begin, BeginAt
<1>8. ASSUME NEW r \in Readers, Register(r) PROVE TypeOK'
  <2>1. reader' \in [Readers -> [step : {"idle", "chosen", "live"}, at : 0 .. Committed]]
    BY <1>8 DEF Register, TypeOK
  <2> QED
    BY <1>4, <1>8, <2>1 DEF Register, TypeOK
<1>9. ASSUME NEW r \in Readers, Release(r) PROVE TypeOK'
  <2>1. reader' \in [Readers -> [step : {"idle", "chosen", "live"}, at : 0 .. Committed]]
    BY <1>9, Typed DEF Release, TypeOK, Idle
  <2>2. search' \in [Readers -> Searches(Committed)]
    BY <1>9, Typed DEF Release, TypeOK, NoSearch, Searches
  <2> QED
    BY <1>4, <1>9, <2>1, <2>2 DEF Release, TypeOK, Searches
<1>18. ASSUME NEW r \in Readers, Admit(r) \/ MergeRetired(r) \/ ScanLive(r) PROVE TypeOK'
  <2>1. search' \in [Readers -> Searches(Committed)]
    BY <1>18, SearchTyped
  <2>2. UNCHANGED <<dataVars, mark, since, reader, pass, trim>>
    BY <1>18 DEF Admit, MergeRetired, ScanLive
  <2> QED
    BY <1>4, <2>1, <2>2 DEF TypeOK, Searches
<1>10. CASE PassBegins
  BY <1>4, <1>10 DEF PassBegins, TypeOK
<1>11. CASE Fold
  BY <1>4, <1>11, Typed DEF Fold, TypeOK, Max
<1>12. CASE Sweep
  BY <1>4, <1>12, Typed DEF Sweep, TypeOK, Max
<1>13. CASE TrimBegins
  BY <1>4, <1>13 DEF TrimBegins, TypeOK
<1>19. CASE TrimRaises
  <2>1. trim # None /\ trim.floor \in 0 .. Committed
    BY <1>19 DEF TrimRaises, TypeOK
  <2>2. trim'.floor \in 0 .. Committed /\ trim'.raised \in BOOLEAN
    BY <1>19, <2>1 DEF TrimRaises
  <2>3. since' \in 0 .. Committed
    BY <1>19, <2>1, Typed DEF TrimRaises, Max, TypeOK
  <2> QED
    BY <1>4, <1>19, <2>2, <2>3 DEF TrimRaises, TypeOK
<1>14. CASE Trim
  BY <1>4, <1>14 DEF Trim, TypeOK
<1>15. CASE TrimEnds
  BY <1>4, <1>15 DEF TrimEnds, TypeOK
<1>16. CASE Reopen
  <2>1. reader' \in [Readers -> [step : {"idle", "chosen", "live"}, at : 0 .. Committed]]
    BY <1>16, Typed DEF Reopen, Idle
  <2>2. search' \in [Readers -> Searches(Committed)]
    BY <1>16, Typed DEF Reopen, NoSearch, Searches
  <2> QED
    BY <1>4, <1>16, <2>1, <2>2, Typed DEF Reopen, TypeOK, Searches
<1>17. CASE UNCHANGED vars
  BY <1>4, <1>17 DEF TypeOK
<1> QED
  BY <1>1, <1>2, <1>3, <1>5, <1>7, <1>8, <1>9, <1>10, <1>11, <1>12, <1>13, <1>14, <1>15, <1>16,
     <1>17, <1>18, <1>19 DEF Next

\* Every variable has the shape the code gives it, for every table and every reader:
\* above all, no floor, mark or snapshot is ahead of what has been written.
THEOREM RetentionTyped == Spec => []TypeOK
  BY InitTyped, NextTyped, PTL DEF Spec

---------------------------------------------------------------------------
(* A registered reader.                                                    *)

LEMMA ProtectedStep ==
    ASSUME TypeOK, [Next]_vars, NEW r \in Readers, Protected(r), reader'[r] = reader[r]
    PROVE  Protected(r)'
<1> USE DEF dataVars, vars
<1>1. reader[r].at \in Nat /\ mark \in Nat /\ (pass # None => pass.floor \in Nat)
  BY Typed DEF TypeOK
<1>2. CASE UNCHANGED <<mark, pass>>
  BY <1>2 DEF Protected
<1>3. CASE PassBegins
  <2>1. reader[r].at \in Registered
    BY DEF Protected, Registered
  <2>2. pass'.floor <= reader[r].at
    BY <1>3, <2>1 DEF PassBegins, IsFloor
  <2> QED
    BY <1>3, <2>2 DEF PassBegins, Protected
<1>4. CASE Fold
  BY <1>1, <1>4 DEF Fold, Max, Protected
<1>5. CASE Sweep
  BY <1>1, <1>5 DEF Sweep, Max, Protected
<1>6. CASE Reopen
  BY <1>6 DEF Reopen, Protected
<1>7. PassBegins \/ Fold \/ Sweep \/ Reopen \/ UNCHANGED <<mark, pass>>
  BY DEF Next, Commit, Resolution, Lands, OtherPart, Land, Begin, BeginAt, Chooses, Register,
         Release, Admit, MergeRetired, ScanLive, TrimBegins, TrimRaises, Trim, TrimEnds
<1> QED
  BY <1>2, <1>3, <1>4, <1>5, <1>6, <1>7

\* A transaction that registered its version before the mark or a pass moved above it
\* is never overtaken by either, however many passes, folds and commits follow: the
\* floor of every later pass is at or below it (retention_floor).
THEOREM ProtectedForLife == Spec => StaysProtected
<1>1. TypeOK /\ [Next]_vars
          => [\A r \in Readers : Protected(r) /\ reader'[r] = reader[r] => Protected(r)']_vars
  BY ProtectedStep
<1> QED
  BY <1>1, RetentionTyped, PTL DEF Spec, StaysProtected

---------------------------------------------------------------------------
(* From the mark on, what should be read is what is read.                  *)

LEMMA NewestIsOne ==
    ASSUME NEW S \in SUBSET Int, NEW n \in Newest(S) PROVE Newest(S) = {n}
<1>1. ASSUME NEW k \in Newest(S) PROVE k = n
  <2>1. k \in Int /\ n \in Int /\ k <= n /\ n <= k
    BY DEF Newest
  <2> QED
    BY <2>1
<1> QED
  BY <1>1

\* Above the mark, what is shown is what was written and is still stored.
LEMMA ShownIsWritten ==
    ASSUME Inv, NEW rec \in Records, NEW at \in mark .. Committed
    PROVE  Shown(rec, at) = Written(rec, at) \cap stored
<1>1. \A v \in stored : (Named(v) => HoldsWhole(at)) <=> (log[v].across => HoldsWhole(at))
  BY Typed DEF Inv, Named, HoldsWhole, FoldedBelowMark
<1>2. stored \subseteq 1 .. Committed
  BY Typed DEF Inv
<1> QED
  BY <1>1, <1>2 DEF Shown, Written

LEMMA AccountedIsExact == Inv => ExactAboveMark
<1> SUFFICES ASSUME Inv, NEW rec \in Records, NEW at \in mark .. Committed
             PROVE  Reads(rec, at) = Past(rec, at)
  BY DEF ExactAboveMark
<1>1. Shown(rec, at) = Written(rec, at) \cap stored
  BY ShownIsWritten
<1>2. Written(rec, at) \subseteq Int /\ Shown(rec, at) \subseteq Int
  BY <1>1 DEF Written
<1>3. CASE Written(rec, at) = {}
  BY <1>1, <1>3 DEF Reads, Past
<1>4. CASE NewestStored(rec, at)
  <2>1. PICK n \in stored : n \in Newest(Written(rec, at))
    BY <1>4 DEF NewestStored
  <2>2. n \in Newest(Shown(rec, at))
    BY <1>1, <2>1 DEF Newest
  <2>3. Newest(Shown(rec, at)) = {n} /\ Newest(Written(rec, at)) = {n}
    BY <1>2, <2>1, <2>2, NewestIsOne
  <2> QED
    BY <2>3 DEF Reads, Past, Says
<1>5. CASE NewestSpent(rec, at)
  <2>1. PICK t \in Newest(Written(rec, at)) :
            /\ log[t].val = Gone
            /\ \A y \in stored : log[y].rec = rec /\ y <= at => y > t
    BY <1>5 DEF NewestSpent
  <2>2. Newest(Written(rec, at)) = {t}
    BY <1>2, <2>1, NewestIsOne
  <2>3. Past(rec, at) = {}
    BY <2>1, <2>2 DEF Past, Says
  <2>4. \A y \in Shown(rec, at) : y > t /\ y <= t
    BY <1>1, <2>1 DEF Written, Newest
  <2>5. Shown(rec, at) = {}
    BY <1>2, <2>1, <2>4 DEF Newest
  <2> QED
    BY <2>3, <2>5 DEF Reads, Says, Newest
<1>6. Accounted(rec, at)
  BY DEF Inv, AllAccounted
<1> QED
  BY <1>3, <1>4, <1>5, <1>6 DEF Accounted

---------------------------------------------------------------------------
(* The invariant is kept.                                                  *)

\* One more version has been written, and it is e.
Longer(e, now) ==
    /\ Committed \in Nat /\ now = Committed + 1 /\ Committed' = now
    /\ \A v \in 1 .. Committed : log'[v] = log[v]
    /\ log'[now] = e

LEMMA AppendIsLonger ==
    ASSUME TypeOK, NEW e \in Writes, log' = Append(log, e), NEW now, now = Committed + 1
    PROVE  Longer(e, now)
  BY Grown, Typed DEF Longer

\* Nothing a version below the new one should show changes when one is written,
\* unless T becomes whole.
LEMMA WrittenBelow ==
    ASSUME NEW e, NEW now, Longer(e, now), NEW rec, NEW at \in 0 .. Committed,
           HoldsWhole(at)' <=> HoldsWhole(at)
    PROVE  Written(rec, at)' = Written(rec, at)
<1>1. \A v : v \in 1 .. Committed' /\ v <= at <=> v \in 1 .. Committed /\ v <= at
  BY DEF Longer
<1>2. \A v \in 1 .. Committed : log'[v] = log[v]
  BY DEF Longer
<1> QED
  BY <1>1, <1>2 DEF Written

\* A version at which the newest to be found was accounted for stays so when the
\* same is to be found from another state or another version.
LEMMA SameAccounted ==
    ASSUME NEW rec, NEW at, NEW next, Accounted(rec, at),
           Written(rec, at) = {} => Written(rec, next)' = {},
           Newest(Written(rec, next))' = Newest(Written(rec, at)),
           \A v \in Written(rec, at) : log'[v] = log[v],
           \A n \in Written(rec, at) : n \in stored => n \in stored',
           \A y \in stored', t \in Written(rec, at) :
               log'[y].rec = rec /\ y <= next /\ ~(y > t)
                   => y \in stored /\ y <= at /\ log'[y] = log[y]
    PROVE  Accounted(rec, next)'
<1>1. Newest(Written(rec, next))' = Newest(Written(rec, at))
  OBVIOUS
<1>2. Newest(Written(rec, at)) \subseteq Written(rec, at)
  BY DEF Newest
<1>3. CASE Written(rec, at) = {}
  BY <1>3 DEF Accounted
<1>4. CASE NewestStored(rec, at)
  BY <1>1, <1>2, <1>4 DEF Accounted, NewestStored
<1>5. CASE NewestSpent(rec, at)
  <2>1. PICK t \in Newest(Written(rec, at)) :
            /\ log[t].val = Gone
            /\ \A y \in stored : log[y].rec = rec /\ y <= at => y > t
    BY <1>5 DEF NewestSpent
  <2>2. log'[t].val = Gone
    BY <1>2, <2>1
  <2>3. \A y \in stored' : log'[y].rec = rec /\ y <= next => y > t
    BY <1>2, <2>1
  <2>4. NewestSpent(rec, next)'
    BY <1>1, <2>1, <2>2, <2>3 DEF NewestSpent
  <2> QED
    BY <2>4 DEF Accounted
<1> QED
  BY <1>3, <1>4, <1>5 DEF Accounted

\* Versions below the new one.
LEMMA StillAccounted ==
    ASSUME TypeOK, AllAccounted, NEW e, NEW now, Longer(e, now), NEW rec \in Records,
           NEW at \in mark .. Committed, HoldsWhole(at)' <=> HoldsWhole(at),
           stored \subseteq stored', stored' \subseteq stored \cup {now}
    PROVE  Accounted(rec, at)'
<1>1. Committed \in Nat /\ now = Committed + 1 /\ \A v \in 1 .. Committed : log'[v] = log[v]
  BY DEF Longer
<1>2. at \in 0 .. Committed /\ stored \subseteq 1 .. Committed
  BY Typed
<1>3. Written(rec, at)' = Written(rec, at)
  BY <1>2, WrittenBelow
<1>4. Written(rec, at) \subseteq 1 .. Committed
  BY DEF Written
<1>5. ASSUME NEW y \in stored', y <= at PROVE y \in stored /\ log'[y] = log[y]
  <2>1. y # now
    BY <1>1, <1>2, <1>5
  <2> QED
    BY <1>1, <1>2, <1>5, <2>1
<1>6. Accounted(rec, at)
  BY DEF AllAccounted
<1>7. \A v \in Written(rec, at) : log'[v] = log[v]
  BY <1>1, <1>4
<1>8. Newest(Written(rec, at))' = Newest(Written(rec, at))
  BY <1>3 DEF Newest
<1> QED
  BY <1>3, <1>5, <1>6, <1>7, <1>8, SameAccounted

\* Where the new version itself shows nothing of the record, it shows what the one
\* before it did.
LEMMA AccountedAsBefore ==
    ASSUME TypeOK, AllAccounted, NEW e, NEW now, Longer(e, now), NEW rec \in Records,
           whole' = whole, stored \subseteq stored', stored' \subseteq stored \cup {now},
           e.rec = rec => e.across /\ ~HoldsWhole(Committed)
    PROVE  Accounted(rec, now)'
<1>1. Committed \in Nat /\ now = Committed + 1 /\ Committed' = now /\ log'[now] = e
  BY DEF Longer
<1>2. \A v \in 1 .. Committed : log'[v] = log[v]
  BY DEF Longer
<1>3. mark \in 0 .. Committed /\ stored \subseteq 1 .. Committed /\ whole \in 0 .. Committed
  BY Typed
<1>4. HoldsWhole(now)' <=> HoldsWhole(Committed)
  BY <1>1, <1>3 DEF HoldsWhole
<1>5. now \notin Written(rec, now)'
  BY <1>1, <1>4 DEF Written
<1>6. ASSUME NEW v \in 1 .. Committed PROVE v \in Written(rec, now)' <=> v \in Written(rec, Committed)
  <2>1. v \in 1 .. Committed' /\ v <= now /\ v <= Committed /\ log'[v] = log[v]
    BY <1>1, <1>2, <1>6
  <2> QED
    BY <1>4, <2>1 DEF Written
<1>7. \A v \in Written(rec, now)' : v \in 1 .. Committed
  <2>1. Written(rec, now)' \subseteq 1 .. now
    BY <1>1 DEF Written
  <2> QED
    BY <1>1, <1>5, <2>1
<1>8. Written(rec, Committed) \subseteq 1 .. Committed
  BY DEF Written
<1>9. Written(rec, now)' = Written(rec, Committed)
  BY <1>6, <1>7, <1>8
<1>10. \A v \in Written(rec, Committed) : log'[v] = log[v]
  BY <1>2, <1>8
<1>11. ASSUME NEW y \in stored', NEW t \in Written(rec, Committed),
              log'[y].rec = rec, ~(y > t)
       PROVE  y \in stored /\ y <= Committed /\ log'[y] = log[y]
  <2>1. y # now
    BY <1>1, <1>8, <1>11
  <2>2. y \in stored /\ y \in 1 .. Committed
    BY <1>3, <1>11, <2>1
  <2> QED
    BY <1>1, <1>2, <2>2
<1>12. Accounted(rec, Committed)
  BY <1>1, <1>3 DEF AllAccounted
<1>13. Newest(Written(rec, now))' = Newest(Written(rec, Committed))
  BY <1>9 DEF Newest
<1> QED
  BY <1>9, <1>10, <1>11, <1>12, <1>13, SameAccounted

\* A version that shows itself is the newest there.
LEMMA NewIsNewest ==
    ASSUME TypeOK, NEW e \in Writes, NEW now, Longer(e, now), whole' = whole, now \in stored',
           e.across => HoldsWhole(Committed)
    PROVE  Accounted(e.rec, now)'
<1>1. Committed \in Nat /\ now = Committed + 1 /\ Committed' = now /\ log'[now] = e
  BY DEF Longer
<1>2. e.across => HoldsWhole(now)'
  BY <1>1, Typed DEF HoldsWhole
<1>3. now \in 1 .. Committed' /\ now <= now /\ log'[now].rec = e.rec
  BY <1>1
<1>4. log'[now].across => HoldsWhole(now)'
  BY <1>1, <1>2
<1>5. now \in Written(e.rec, now)'
  BY <1>3, <1>4 DEF Written
<1>6. \A v \in Written(e.rec, now)' : v <= now
  BY <1>1 DEF Written
<1>7. now \in Newest(Written(e.rec, now))'
  BY <1>5, <1>6 DEF Newest
<1> QED
  BY <1>7 DEF Accounted, NewestStored

\* What the invariant says of T, after one more version that is T's first or not T's.
LEMMA LongerKeepsT ==
    ASSUME TypeOK, OneAcross, CoveredT, NEW e \in Writes, NEW now, Longer(e, now),
           folded' = folded, stored \subseteq stored',
           e.across => now \in stored' /\ \A v \in 1 .. Committed : ~log[v].across
    PROVE  OneAcross' /\ CoveredT'
<1>1. Committed \in Nat /\ now = Committed + 1 /\ Committed' = now /\ log'[now] = e
  BY DEF Longer
<1>2. \A v \in 1 .. Committed : log'[v] = log[v]
  BY DEF Longer
<1>3. \A v \in 1 .. Committed' : v = now \/ v \in 1 .. Committed
  BY <1>1
<1>4. OneAcross'
  <2> SUFFICES ASSUME NEW u \in 1 .. Committed', NEW v \in 1 .. Committed',
                      log'[u].across, log'[v].across
               PROVE  u = v
    BY DEF OneAcross
  <2>1. CASE u \in 1 .. Committed /\ v \in 1 .. Committed
    BY <1>2, <2>1 DEF OneAcross
  <2> QED
    BY <1>1, <1>2, <1>3, <2>1
<1>5. CoveredT'
  <2> SUFFICES ASSUME ~folded, NEW v \in 1 .. Committed', log'[v].across, v \notin stored'
               PROVE  \E u \in 1 .. Committed' :
                          u > v /\ log'[u].rec = log'[v].rec /\ ~log'[u].across
    BY DEF CoveredT
  <2>1. v \in 1 .. Committed
    BY <1>1, <1>3
  <2>2. log[v].across /\ v \notin stored
    BY <1>2, <2>1
  <2>3. PICK u \in 1 .. Committed : u > v /\ log[u].rec = log[v].rec /\ ~log[u].across
    BY <2>1, <2>2 DEF CoveredT
  <2>4. u \in 1 .. Committed' /\ log'[u] = log[u] /\ log'[v] = log[v]
    BY <1>1, <1>2, <2>1
  <2> QED
    BY <2>3, <2>4
<1> QED
  BY <1>4, <1>5

LEMMA LandsKeeps ==
    ASSUME Inv, NEW rec \in Records, NEW val \in Values \cup {Gone}, NEW across \in BOOLEAN,
           NEW previous, Lands(rec, val, across, previous),
           across => \A v \in 1 .. Committed : ~log[v].across
    PROVE  FoldedBelowMark' /\ OneAcross' /\ CoveredT' /\ AllAccounted'
<1>0. TypeOK /\ OneAcross /\ CoveredT /\ AllAccounted /\ FoldedBelowMark
  BY DEF Inv
<1>1. PICK e : e = Write(rec, val, across)
  OBVIOUS
<1>2. e \in Writes /\ e.rec = rec /\ e.across = across
  BY <1>1 DEF Write, Writes
<1>3. PICK now : now = Committed + 1
  OBVIOUS
<1>4. Longer(e, now)
  BY <1>0, <1>1, <1>2, <1>3, AppendIsLonger DEF Lands
<1>5. /\ whole' = whole /\ folded' = folded /\ mark' = mark
      /\ stored' = stored \cup {now}
  BY <1>3 DEF Lands
<1>6. stored \subseteq stored' /\ now \in stored' /\ stored' \subseteq stored \cup {now}
  BY <1>5
<1>7. OneAcross' /\ CoveredT'
  BY <1>0, <1>2, <1>4, <1>5, <1>6, LongerKeepsT
<1>8. FoldedBelowMark'
  BY <1>0, <1>5 DEF FoldedBelowMark
<1>9. ASSUME NEW r \in Records, NEW at \in mark .. Committed PROVE Accounted(r, at)'
  <2>1. HoldsWhole(at)' <=> HoldsWhole(at)
    BY <1>5 DEF HoldsWhole
  <2> QED
    BY <1>0, <1>4, <1>6, <2>1, StillAccounted
<1>10. ASSUME NEW r \in Records PROVE Accounted(r, now)'
  <2>1. CASE r = rec /\ (across => HoldsWhole(Committed))
    BY <1>0, <1>2, <1>4, <1>5, <1>6, <2>1, NewIsNewest
  <2>2. CASE ~(r = rec /\ (across => HoldsWhole(Committed)))
    BY <1>0, <1>2, <1>4, <1>5, <1>6, <2>2, AccountedAsBefore
  <2> QED
    BY <2>1, <2>2
<1>11. \A at \in mark' .. Committed' : at = now \/ at \in mark .. Committed
  BY <1>0, <1>4, <1>5, Typed DEF Longer
<1>12. AllAccounted'
  BY <1>9, <1>10, <1>11 DEF AllAccounted
<1> QED
  BY <1>7, <1>8, <1>12

\* T's other part shows T's version at once: it is stored, or lies under one that
\* is not T's.
LEMMA OtherPartKeeps ==
    ASSUME Inv, OtherPart
    PROVE  FoldedBelowMark' /\ OneAcross' /\ CoveredT' /\ AllAccounted'
<1>0. TypeOK /\ OneAcross /\ CoveredT /\ AllAccounted /\ FoldedBelowMark
  BY DEF Inv
<1>1. PICK e : e = Write(None, Gone, FALSE)
  OBVIOUS
<1>2. e \in Writes /\ e.rec = None /\ e.across = FALSE
  BY <1>1 DEF Write, Writes
<1>3. PICK now : now = Committed + 1
  OBVIOUS
<1>4. Longer(e, now)
  BY <1>0, <1>1, <1>2, <1>3, AppendIsLonger DEF OtherPart
<1>5. whole = 0 /\ whole' = now /\ folded' = folded /\ mark' = mark /\ stored' = stored
  BY <1>3 DEF OtherPart
<1>6. stored \subseteq stored' /\ stored' \subseteq stored \cup {now}
  BY <1>5
<1>7. OneAcross' /\ CoveredT'
  BY <1>0, <1>2, <1>4, <1>5, <1>6, LongerKeepsT
<1>8. Committed \in Nat /\ now = Committed + 1 /\ Committed' = now /\ log'[now] = e
  BY <1>4 DEF Longer
<1>9. \A v \in 1 .. Committed : log'[v] = log[v]
  BY <1>4 DEF Longer
<1>10. mark \in 0 .. Committed /\ stored \subseteq 1 .. Committed
  BY <1>0, Typed
<1>11. ~folded
  BY <1>0, <1>5, <1>10 DEF FoldedBelowMark
<1>12. FoldedBelowMark'
  BY <1>5, <1>11 DEF FoldedBelowMark
<1>13. ASSUME NEW r \in Records, NEW at \in mark .. Committed PROVE Accounted(r, at)'
  <2>1. HoldsWhole(at)' <=> HoldsWhole(at)
    BY <1>5, <1>8, <1>10 DEF HoldsWhole
  <2> QED
    BY <1>0, <1>4, <1>6, <2>1, StillAccounted
<1>14. ASSUME NEW r \in Records PROVE Accounted(r, now)'
  <2>1. HoldsWhole(now)'
    BY <1>5, <1>8 DEF HoldsWhole
  <2>2. ~(e.rec = r)
    BY <1>2, RetentionAssumption
  <2>3. Written(r, now)' = {v \in 1 .. Committed : log[v].rec = r}
    <3>1. \A v : v \in Written(r, now)' <=> v \in 1 .. now /\ log'[v].rec = r
      BY <1>8, <2>1 DEF Written
    <3>2. \A v \in 1 .. now : log'[v].rec = r => v # now
      BY <1>8, <2>2
    <3>3. \A v : v \in 1 .. now /\ v # now <=> v \in 1 .. Committed
      BY <1>8
    <3> QED
      BY <1>9, <3>1, <3>2, <3>3
  <2>4. Written(r, Committed) \subseteq Written(r, now)'
    BY <2>3 DEF Written
  <2>5. \A v \in Written(r, now)' : v \in Written(r, Committed) \/ log[v].across
    BY <1>8, <2>3 DEF Written
  <2>6. \A v \in 1 .. Committed : log[v].rec = r /\ ~log[v].across => v \in Written(r, Committed)
    BY <1>8 DEF Written
  <2>7. Written(r, now)' \subseteq Int
    BY <2>3
  <2>8. CASE \E v \in Written(r, now)' : log[v].across /\ \A u \in Written(r, Committed) : u <= v
    <3>1. PICK v \in Written(r, now)' : log[v].across /\ \A u \in Written(r, Committed) : u <= v
      BY <2>8
    <3>2. v \in 1 .. Committed /\ log[v].rec = r
      BY <2>3
    <3>3. v \in stored
      <4> SUFFICES ASSUME v \notin stored PROVE FALSE
        OBVIOUS
      <4>1. PICK u \in 1 .. Committed : u > v /\ log[u].rec = log[v].rec /\ ~log[u].across
        BY <1>0, <1>11, <3>1, <3>2 DEF CoveredT
      <4>2. u <= v
        BY <2>6, <3>1, <3>2, <4>1
      <4> QED
        BY <3>2, <4>1, <4>2
    <3>4. \A u \in Written(r, now)' : u <= v
      <4> SUFFICES ASSUME NEW u \in Written(r, now)' PROVE u <= v
        OBVIOUS
      <4>1. CASE u \in Written(r, Committed)
        BY <3>1, <4>1
      <4>2. CASE log[u].across
        BY <1>0, <2>3, <3>1, <3>2, <4>2 DEF OneAcross
      <4> QED
        BY <2>5, <4>1, <4>2
    <3>5. v \in Newest(Written(r, now))'
      BY <3>1, <3>4 DEF Newest
    <3> QED
      BY <1>5, <3>3, <3>5 DEF Accounted, NewestStored
  <2>9. CASE \A v \in Written(r, now)' :
                 log[v].across => \E u \in Written(r, Committed) : ~(u <= v)
    <3>1. Newest(Written(r, now)') = Newest(Written(r, Committed))
      <4>1. ASSUME NEW n \in Newest(Written(r, Committed)) PROVE n \in Newest(Written(r, now)')
        <5>1. n \in Written(r, now)' /\ \A u \in Written(r, Committed) : u <= n
          BY <2>4 DEF Newest
        <5>2. ASSUME NEW u \in Written(r, now)', log[u].across PROVE u <= n
          <6>1. PICK w \in Written(r, Committed) : ~(w <= u)
            BY <2>9, <5>2
          <6>2. w <= n /\ w \in Int /\ u \in Int /\ n \in Int
            BY <2>4, <2>7, <5>1
          <6> QED
            BY <6>1, <6>2
        <5> QED
          BY <2>5, <5>1, <5>2 DEF Newest
      <4>2. ASSUME NEW n \in Newest(Written(r, now)') PROVE n \in Newest(Written(r, Committed))
        <5>1. n \in Written(r, now)' /\ \A u \in Written(r, now)' : u <= n
          BY DEF Newest
        <5>2. ~log[n].across \/ n \in Written(r, Committed)
          BY <2>4, <2>9, <5>1
        <5> QED
          BY <2>4, <2>5, <5>1, <5>2 DEF Newest
      <4> QED
        BY <4>1, <4>2 DEF Newest
    <3>2. Newest(Written(r, now))' = Newest(Written(r, Committed))
      BY <3>1 DEF Newest
    <3>3. Written(r, Committed) = {} => Written(r, now)' = {}
      BY <2>5, <2>9
    <3>4. \A v \in Written(r, Committed) : log'[v] = log[v]
      BY <1>9 DEF Written
    <3>5. \A y \in stored' : y \in stored /\ y <= Committed /\ log'[y] = log[y]
      BY <1>5, <1>8, <1>9, <1>10
    <3>6. Accounted(r, Committed)
      BY <1>0, <1>8, <1>10 DEF AllAccounted
    <3> QED
      BY <1>5, <3>2, <3>3, <3>4, <3>5, <3>6, SameAccounted
  <2> QED
    BY <2>8, <2>9
<1>15. \A at \in mark' .. Committed' : at = now \/ at \in mark .. Committed
  BY <1>5, <1>8, <1>10
<1>16. AllAccounted'
  BY <1>13, <1>14, <1>15 DEF AllAccounted
<1> QED
  BY <1>7, <1>12, <1>16

\* Nothing the invariant is about changes but what is stored, and that only shrinks.
LEMMA WrittenSame ==
    ASSUME UNCHANGED <<log, whole>>, NEW rec, NEW at
    PROVE  /\ Written(rec, at)' = Written(rec, at)
           /\ Newest(Written(rec, at))' = Newest(Written(rec, at))
<1>1. Written(rec, at)' = Written(rec, at)
  BY DEF Written, HoldsWhole, Committed
<1> QED
  BY <1>1 DEF Newest

\* From its floor on, a pass takes no version that a reader should find, except a
\* tombstone with everything under it.
LEMMA RemovedAccounted ==
    ASSUME Inv, UNCHANGED <<log, whole>>, NEW floor \in 0 .. Committed,
           stored' = stored \ Removable(floor),
           NEW rec \in Records, NEW at \in mark .. Committed, floor <= at
    PROVE  Accounted(rec, at)'
<1>0. /\ TypeOK /\ AllAccounted /\ FoldedBelowMark
      /\ Committed \in Nat /\ mark \in 0 .. Committed /\ stored \subseteq 1 .. Committed
  BY Typed DEF Inv
<1>1. /\ Written(rec, at)' = Written(rec, at)
      /\ Newest(Written(rec, at))' = Newest(Written(rec, at))
  BY WrittenSame
<1>2. stored' \subseteq stored
  OBVIOUS
<1>3. Accounted(rec, at)
  BY <1>0 DEF AllAccounted
<1>4. CASE Written(rec, at) = {}
  BY <1>1, <1>4 DEF Accounted
<1>5. CASE NewestSpent(rec, at)
  <2>1. NewestSpent(rec, at)'
    BY <1>1, <1>2, <1>5 DEF NewestSpent
  <2> QED
    BY <2>1 DEF Accounted
<1>6. CASE NewestStored(rec, at)
  <2>1. PICK n \in stored : n \in Newest(Written(rec, at))
    BY <1>6 DEF NewestStored
  <2>2. log[n].rec = rec /\ n \in Int /\ \A u \in Written(rec, at) : u <= n
    BY <2>1 DEF Newest, Written
  <2>3. CASE n \in stored'
    BY <1>1, <2>1, <2>3 DEF Accounted, NewestStored
  <2>4. CASE n \notin stored'
    <3> DEFINE below == {v \in stored : log[v].rec = rec /\ v <= floor}
    <3>1. n \in Removable(floor)
      BY <2>1, <2>4
    <3>2. \A u \in below : ~Named(u) => u <= n
      <4> SUFFICES ASSUME NEW u \in below, ~Named(u) PROVE u \in Written(rec, at)
        BY <2>2
      <4>1. u \in 1 .. Committed /\ log[u].rec = rec /\ u <= at
        BY <1>0
      <4>2. log[u].across => HoldsWhole(at)
        <5>1. log[u].across => folded
          BY DEF Named
        <5>2. folded => HoldsWhole(at)
          BY <1>0 DEF FoldedBelowMark, HoldsWhole
        <5> QED
          BY <5>1, <5>2
      <4> QED
        BY <4>1, <4>2 DEF Written
    <3>3. \A u \in below : ~(u > n /\ ~Named(u))
      BY <1>0, <2>2, <3>2
    <3>4. n <= floor /\ ~Named(n) /\ log[n].val = Gone
      BY <2>2, <3>1, <3>3 DEF Removable
    <3>5. n \in below
      BY <2>1, <2>2, <3>4
    <3>6. ASSUME NEW y \in stored', log[y].rec = rec PROVE y > n
      <4> SUFFICES ASSUME ~(y > n) PROVE FALSE
        OBVIOUS
      <4>1. y \in stored /\ y \in Int /\ y # n
        BY <1>0, <1>2, <2>4, <3>6
      <4>2. n > y /\ y <= floor
        BY <2>2, <3>4, <4>1
      <4>3. y \in Removable(floor)
        BY <3>4, <3>5, <3>6, <4>1, <4>2 DEF Removable
      <4> QED
        BY <4>3
    <3>7. NewestSpent(rec, at)'
      BY <1>1, <2>1, <3>4, <3>6 DEF NewestSpent
    <3> QED
      BY <3>7 DEF Accounted
  <2> QED
    BY <2>3, <2>4
<1> QED
  BY <1>3, <1>4, <1>5, <1>6 DEF Accounted

LEMMA SweepKeeps ==
    ASSUME Inv, Sweep PROVE FoldedBelowMark' /\ OneAcross' /\ CoveredT' /\ AllAccounted'
<1>0. /\ TypeOK /\ AllAccounted /\ FoldedBelowMark /\ OneAcross /\ CoveredT
      /\ Committed \in Nat /\ mark \in 0 .. Committed /\ stored \subseteq 1 .. Committed
  BY Typed DEF Inv
<1>1. PICK floor : floor = pass.floor
  OBVIOUS
<1>2. /\ floor \in 0 .. Committed /\ UNCHANGED <<log, whole, folded>>
      /\ stored' = stored \ Removable(floor)
      /\ mark' = IF stored' = stored THEN mark ELSE Max(mark, floor)
  BY <1>0, <1>1 DEF Sweep, TypeOK
<1>3. Committed' = Committed
  BY <1>2 DEF Committed
<1>4. mark' >= mark /\ mark' \in Int /\ (stored' # stored => mark' >= floor)
  BY <1>0, <1>2 DEF Max
<1>5. FoldedBelowMark'
  BY <1>0, <1>2, <1>4 DEF FoldedBelowMark
<1>6. OneAcross'
  BY <1>0, <1>2, <1>3 DEF OneAcross
<1>7. CoveredT'
  <2> SUFFICES ASSUME ~folded, NEW v \in 1 .. Committed, log[v].across, v \notin stored'
               PROVE  \E u \in 1 .. Committed :
                          u > v /\ log[u].rec = log[v].rec /\ ~log[u].across
    BY <1>2, <1>3 DEF CoveredT
  <2>1. CASE v \notin stored
    BY <1>0, <2>1 DEF CoveredT
  <2>2. CASE v \in stored
    <3>1. v \in Removable(floor) /\ Named(v)
      BY <1>2, <2>2 DEF Named
    <3>2. PICK u \in stored : log[u].rec = log[v].rec /\ u > v /\ ~Named(u)
      BY <3>1 DEF Removable
    <3>3. ~log[u].across
      BY <3>2 DEF Named
    <3> QED
      BY <1>0, <3>2, <3>3
  <2> QED
    BY <2>1, <2>2
<1>8. AllAccounted'
  <2> SUFFICES ASSUME NEW rec \in Records, NEW at \in mark' .. Committed
               PROVE  Accounted(rec, at)'
    BY <1>3 DEF AllAccounted
  <2>1. at \in mark .. Committed
    BY <1>0, <1>4
  <2>2. CASE stored' = stored
    <3>1. Accounted(rec, at)
      BY <1>0, <2>1 DEF AllAccounted
    <3>2. /\ Written(rec, at)' = Written(rec, at)
          /\ Newest(Written(rec, at))' = Newest(Written(rec, at))
      BY <1>2, WrittenSame
    <3> QED
      BY <1>2, <2>2, <3>1, <3>2 DEF Accounted, NewestStored, NewestSpent
  <2>3. CASE stored' # stored
    <3>1. floor <= at
      BY <1>2, <1>4, <2>1, <2>3
    <3> QED
      BY <1>2, <2>1, <3>1, RemovedAccounted
  <2> QED
    BY <2>2, <2>3
<1> QED
  BY <1>5, <1>6, <1>7, <1>8

\* A raised mark, and T's name lost below it, leave the rest accounted for.
LEMMA RaisedKeeps ==
    ASSUME Inv, UNCHANGED <<log, stored, whole>>, mark' \in mark .. Committed,
           folded' \in {TRUE, folded}, folded' => whole \in 1 .. mark'
    PROVE  FoldedBelowMark' /\ OneAcross' /\ CoveredT' /\ AllAccounted'
<1>0. /\ TypeOK /\ AllAccounted /\ OneAcross /\ CoveredT
      /\ Committed \in Nat /\ mark \in 0 .. Committed
  BY Typed DEF Inv
<1>1. Committed' = Committed
  BY DEF Committed
<1>2. FoldedBelowMark' /\ OneAcross'
  BY <1>0, <1>1 DEF FoldedBelowMark, OneAcross
<1>3. folded' = FALSE => folded = FALSE
  BY <1>0 DEF TypeOK
<1>4. CoveredT'
  BY <1>0, <1>1, <1>3 DEF CoveredT
<1>5. ASSUME NEW rec \in Records, NEW at \in mark' .. Committed PROVE Accounted(rec, at)'
  <2>1. Accounted(rec, at)
    BY <1>0 DEF AllAccounted
  <2>2. /\ Written(rec, at)' = Written(rec, at)
        /\ Newest(Written(rec, at))' = Newest(Written(rec, at))
    BY WrittenSame
  <2> QED
    BY <2>1, <2>2 DEF Accounted, NewestStored, NewestSpent
<1>6. AllAccounted'
  BY <1>1, <1>5 DEF AllAccounted
<1> QED
  BY <1>2, <1>4, <1>6

LEMMA InitInv == Init => Inv
<1> SUFFICES ASSUME Init PROVE Inv
  OBVIOUS
<1>1. TypeOK
  BY InitTyped
<1>2. Committed = 0 /\ ~folded
  BY DEF Init, Committed
<1>3. FoldedBelowMark /\ OneAcross /\ CoveredT
  BY <1>2 DEF FoldedBelowMark, OneAcross, CoveredT
<1>4. \A rec \in Records : \A at \in mark .. Committed : Written(rec, at) = {}
  BY <1>2 DEF Written
<1>5. AllAccounted
  BY <1>4 DEF AllAccounted, Accounted
<1> QED
  BY <1>1, <1>3, <1>5 DEF Inv

LEMMA NextInv == ASSUME Inv, [Next]_vars PROVE Inv'
<1> USE DEF dataVars, vars
<1>1. TypeOK /\ TypeOK' /\ FoldedBelowMark /\ mark \in 0 .. Committed
  BY NextTyped, Typed DEF Inv
<1>2. SUFFICES FoldedBelowMark' /\ OneAcross' /\ CoveredT' /\ AllAccounted'
  BY <1>1 DEF Inv
<1>3. ASSUME NEW rec \in Records, NEW val \in Values \cup {Gone},
             Commit(rec, val) \/ Resolution(rec, val)
      PROVE  FoldedBelowMark' /\ OneAcross' /\ CoveredT' /\ AllAccounted'
  <2>1. CASE Commit(rec, val)
    BY <2>1, LandsKeeps DEF Commit
  <2>2. CASE Resolution(rec, val)
    <3>1. \A v \in 1 .. Committed : ~log[v].across
      BY <2>2 DEF Resolution
    <3>2. PICK previous : Lands(rec, val, TRUE, previous)
      BY <2>2 DEF Resolution
    <3> QED
      BY <3>1, <3>2, LandsKeeps
  <2> QED
    BY <1>3, <2>1, <2>2
<1>4. CASE OtherPart
  BY <1>4, OtherPartKeeps
<1>5. CASE Sweep
  BY <1>5, SweepKeeps
<1>6. CASE Fold
  <2>1. pass.floor \in 0 .. Committed /\ whole \in 1 .. pass.floor
    BY <1>1, <1>6 DEF Fold, TypeOK, HoldsWhole
  <2>2. mark' \in mark .. Committed /\ whole \in 1 .. mark'
    BY <1>1, <1>6, <2>1, Typed DEF Fold, Max
  <2> QED
    BY <1>6, <2>2, RaisedKeeps DEF Fold
<1>7. CASE UNCHANGED <<log, stored, whole, folded, mark>>
  <2>1. mark' \in mark .. Committed
    BY <1>1, <1>7, Typed
  <2> QED
    BY <1>1, <1>7, <2>1, RaisedKeeps DEF FoldedBelowMark
<1>8. \/ \E rec \in Records, val \in Values \cup {Gone} : Commit(rec, val) \/ Resolution(rec, val)
      \/ OtherPart \/ Sweep \/ Fold \/ UNCHANGED <<log, stored, whole, folded, mark>>
  BY DEF Next, Land, Begin, BeginAt, Chooses, Register, Release, Admit, MergeRetired, ScanLive,
         PassBegins, TrimBegins, TrimRaises, Trim, TrimEnds, Reopen
<1> QED
  BY <1>3, <1>4, <1>5, <1>6, <1>7, <1>8

\* The mark is honest: whatever passes, folds, commits, landings of T and crashes have
\* gone before, a read at or above it answers as if nothing had been removed, of every
\* record (reclaim_table, fold_settled_across, Store::reclaim_floor).
THEOREM MarkIsHonest == Spec => []ExactAboveMark
  BY InitInv, NextInv, AccountedIsExact, PTL DEF Spec

---------------------------------------------------------------------------
(* What the index finds.  Whatever a landing takes from the entries it puts *)
(* among the retired ones at its own version, above every version that      *)
(* could want it; only entries at or below `since' are ever trimmed.  Which *)
(* value the landing took for the record's, T passed over or not, does not  *)
(* matter to that.                                                          *)

\* What was written of rec by version `at', T's included.
Laid(rec, at) == {v \in 1 .. Committed : log[v].rec = rec /\ v <= at}

\* The index still leads from val to rec for a reader at `at'.
Held(rec, val, at) ==
    \/ Entry(rec, val) \in entries
    \/ \E e \in retired : e.entry = Entry(rec, val) /\ e.at > at

AllHeld ==
    \A rec \in Records, at \in since .. Committed : \A val \in Says(Laid(rec, at)) : Held(rec, val, at)

TrimsBelowSince == trim # None /\ trim.raised => trim.floor <= since

\* What a search knows.  One that does not merge was admitted at the tail; one that
\* has seen the newest version's removals has found, or stands to find, whatever was
\* laid; one that ended so has found it.
Knows(r) ==
    LET at == reader[r].at
        s  == search[r]
    IN  /\ s.step # "none" => reader[r].step = "live"
        /\ s.step \in {"admitted", "merged"} /\ ~s.merges => s.seen = at
        /\ s.step = "merged" /\ s.seen = Committed /\ since <= at =>
               \A rec \in Records : \A val \in Says(Laid(rec, at)) :
                   Entry(rec, val) \in s.found \cup entries
        /\ s.step = "done" /\ since <= at =>
               \A rec \in Records : \A val \in Says(Laid(rec, at)) : Entry(rec, val) \in s.found

AllKnow == \A r \in Readers : Knows(r)

IndexInv == TypeOK /\ TrimsBelowSince /\ AllHeld /\ AllKnow

LEMMA EntryIsOne ==
    ASSUME NEW rec, NEW val, NEW other, NEW old, Entry(rec, val) = Entry(other, old)
    PROVE  rec = other /\ val = old
<1>1. Entry(rec, val).rec = rec /\ Entry(other, old).rec = other
  BY DEF Entry
<1>2. Entry(rec, val).val = val /\ Entry(other, old).val = old
  BY DEF Entry
<1> QED
  BY <1>1, <1>2

\* What a landing takes away it keeps as retired.
LEMMA MaintainHolds ==
    ASSUME TypeOK, NEW rec, NEW val, NEW previous, Maintain(rec, val, previous),
           NEW r, NEW v, NEW at \in 0 .. Committed, Held(r, v, at)
    PROVE  Held(r, v, at)'
<1> DEFINE lost == {Entry(rec, old) : old \in previous}
           won == {Entry(rec, val)} \ {Entry(rec, Gone)}
<1>1. /\ entries' = (entries \ lost) \cup won
      /\ retired' = retired \cup {[entry |-> e, at |-> Committed + 1] : e \in lost \ won}
  BY DEF Maintain
<1>2. CASE Entry(r, v) \in entries /\ Entry(r, v) \in lost \ won
  <2>1. PICK gone : gone = [entry |-> Entry(r, v), at |-> Committed + 1]
    OBVIOUS
  <2>2. gone \in retired' /\ gone.entry = Entry(r, v) /\ gone.at = Committed + 1
    BY <1>1, <1>2, <2>1
  <2>3. gone.at > at
    BY <2>2, Typed
  <2> QED
    BY <2>2, <2>3 DEF Held, Entry
<1>3. CASE Entry(r, v) \in entries /\ ~(Entry(r, v) \in lost \ won)
  BY <1>1, <1>3 DEF Held, Entry
<1>4. CASE \E e \in retired : e.entry = Entry(r, v) /\ e.at > at
  BY <1>1, <1>4 DEF Held, Entry
<1> QED
  BY <1>2, <1>3, <1>4 DEF Held

\* Nothing retired is above the newest version: there the entries alone must do.
LEMMA HeldAtTail ==
    ASSUME TypeOK, NEW rec, NEW val, Held(rec, val, Committed)
    PROVE  Entry(rec, val) \in entries
<1>1. \A e \in retired : e.at \in 1 .. Committed
  BY DEF TypeOK
<1> QED
  BY <1>1, Typed DEF Held

\* Older versions laid what they laid.
LEMMA LaidBelow ==
    ASSUME NEW e, NEW now, Longer(e, now), NEW rec, NEW at \in 0 .. Committed
    PROVE  /\ Laid(rec, at)' = Laid(rec, at)
           /\ Says(Laid(rec, at))' = Says(Laid(rec, at))
<1>1. \A v : v \in 1 .. Committed' /\ v <= at <=> v \in 1 .. Committed /\ v <= at
  BY DEF Longer
<1>2. \A v \in 1 .. Committed : log'[v] = log[v]
  BY DEF Longer
<1>3. Laid(rec, at)' = Laid(rec, at)
  BY <1>1, <1>2 DEF Laid
<1>4. \A v \in Newest(Laid(rec, at)) : log'[v] = log[v]
  BY <1>2 DEF Newest, Laid
<1>5. Newest(Laid(rec, at))' = Newest(Laid(rec, at))
  BY <1>3 DEF Newest
<1> QED
  BY <1>3, <1>4, <1>5 DEF Says

\* The version just written says what is newest of its record, and nothing of others.
LEMMA LaidNow ==
    ASSUME NEW e, NEW now, Longer(e, now), NEW rec
    PROVE  /\ e.rec = rec => Says(Laid(rec, now))' \subseteq {e.val} \ {Gone}
           /\ e.rec # rec => Says(Laid(rec, now))' = Says(Laid(rec, Committed))
<1>1. /\ Committed \in Nat /\ now = Committed + 1 /\ Committed' = now
      /\ \A v \in 1 .. Committed : log'[v] = log[v]
      /\ log'[now] = e
  BY DEF Longer
<1>2. CASE e.rec = rec
  <2>1. now \in Laid(rec, now)' /\ Laid(rec, now)' \subseteq 1 .. now
    BY <1>1, <1>2 DEF Laid
  <2>2. Newest(Laid(rec, now))' \subseteq {now}
    <3>1. \A v \in Newest(Laid(rec, now)') : v \in 1 .. now /\ now <= v
      BY <2>1 DEF Newest
    <3> QED
      BY <1>1, <3>1 DEF Newest
  <2> QED
    BY <1>1, <1>2, <2>2 DEF Says
<1>3. CASE e.rec # rec
  <2>1. Laid(rec, now)' = Laid(rec, Committed)
    <3>1. \A v \in 1 .. now : log'[v].rec = rec => v \in 1 .. Committed
      BY <1>1, <1>3
    <3> QED
      BY <1>1, <3>1 DEF Laid
  <2>2. \A v \in Newest(Laid(rec, Committed)) : log'[v] = log[v]
    BY <1>1 DEF Newest, Laid
  <2>3. Newest(Laid(rec, now))' = Newest(Laid(rec, Committed))
    BY <2>1 DEF Newest
  <2> QED
    BY <1>3, <2>2, <2>3 DEF Says
<1> QED
  BY <1>2, <1>3

\* A version lands with what it derives.
LEMMA LandsHolds ==
    ASSUME IndexInv, NEW rec \in Records, NEW val \in Values \cup {Gone}, NEW across \in BOOLEAN,
           NEW previous, Lands(rec, val, across, previous)
    PROVE  AllHeld'
<1>1. PICK e \in Writes : e = Write(rec, val, across)
  BY DEF Write, Writes
<1>2. PICK now : now = Committed + 1
  OBVIOUS
<1>3. Longer(e, now) /\ Maintain(rec, val, previous) /\ TypeOK
  BY <1>1, <1>2, AppendIsLonger DEF Lands, IndexInv
<1>4. e.rec = rec /\ e.val = val
  BY <1>1 DEF Write
<1>5. Committed \in Nat /\ since' = since /\ since \in 0 .. Committed /\ Committed' = Committed + 1
  BY <1>2, <1>3, Typed DEF Lands, TypeOK, Longer
<1> SUFFICES ASSUME NEW r \in Records, NEW at \in since .. now, NEW v \in Says(Laid(r, at))'
             PROVE  Held(r, v, at)'
  BY <1>2, <1>5 DEF AllHeld
<1>6. CASE at # now
  <2>1. at \in 0 .. Committed /\ at \in since .. Committed
    BY <1>2, <1>5, <1>6
  <2>2. v \in Says(Laid(r, at))
    BY <1>3, <2>1, LaidBelow
  <2>3. Held(r, v, at)
    BY <2>1, <2>2 DEF IndexInv, AllHeld
  <2> QED
    BY <1>3, <2>1, <2>3, MaintainHolds
<1>7. CASE at = now /\ r = rec
  <2>1. v = val /\ val # Gone
    BY <1>3, <1>4, <1>7, LaidNow
  <2>2. Entry(rec, val) # Entry(rec, Gone)
    BY <2>1, EntryIsOne
  <2>3. Entry(rec, val) \in entries'
    BY <1>3, <2>2 DEF Maintain
  <2> QED
    BY <1>7, <2>1, <2>3 DEF Held, Entry
<1>8. CASE at = now /\ r # rec
  <2>1. v \in Says(Laid(r, Committed))
    BY <1>3, <1>4, <1>8, LaidNow
  <2>2. Held(r, v, Committed)
    BY <1>5, <2>1 DEF IndexInv, AllHeld
  <2>3. Entry(r, v) \in entries
    BY <1>3, <2>2, HeldAtTail
  <2>4. \A old : Entry(r, v) # Entry(rec, old)
    BY <1>8, EntryIsOne
  <2>5. Entry(r, v) \in entries'
    BY <1>3, <2>3, <2>4 DEF Maintain
  <2> QED
    BY <2>5 DEF Held, Entry
<1> QED
  BY <1>6, <1>7, <1>8

LEMMA OtherPartHolds == ASSUME IndexInv, OtherPart PROVE AllHeld'
<1>1. PICK e \in Writes : e = Write(None, Gone, FALSE)
  BY DEF Write, Writes
<1>2. PICK now : now = Committed + 1
  OBVIOUS
<1>3. /\ Longer(e, now) /\ TypeOK /\ entries' = entries /\ retired' = retired
  BY <1>1, <1>2, AppendIsLonger DEF OtherPart, IndexInv
<1>4. e.rec = None
  BY <1>1 DEF Write
<1>5. Committed \in Nat /\ since' = since /\ since \in 0 .. Committed /\ Committed' = Committed + 1
  BY <1>2, <1>3, Typed DEF OtherPart, TypeOK, Longer
<1> SUFFICES ASSUME NEW r \in Records, NEW at \in since .. now, NEW v \in Says(Laid(r, at))'
             PROVE  Held(r, v, at)'
  BY <1>2, <1>5 DEF AllHeld
<1>6. CASE at # now
  <2>1. at \in 0 .. Committed /\ at \in since .. Committed
    BY <1>2, <1>5, <1>6
  <2>2. v \in Says(Laid(r, at))
    BY <1>3, <2>1, LaidBelow
  <2>3. Held(r, v, at)
    BY <2>1, <2>2 DEF IndexInv, AllHeld
  <2> QED
    BY <1>3, <2>3 DEF Held, Entry
<1>7. CASE at = now
  <2>1. e.rec # r
    BY <1>4, RetentionAssumption
  <2>2. v \in Says(Laid(r, Committed))
    BY <1>3, <1>7, <2>1, LaidNow
  <2>3. Held(r, v, Committed)
    BY <1>5, <2>2 DEF IndexInv, AllHeld
  <2> QED
    BY <1>3, <2>3, HeldAtTail DEF Held, Entry
<1> QED
  BY <1>6, <1>7

LEMMA InitIndexInv == Init => IndexInv
<1> SUFFICES ASSUME Init PROVE IndexInv
  OBVIOUS
<1>1. TypeOK /\ Committed = 0 /\ trim = None
  BY InitTyped DEF Init, Committed
<1>2. \A rec \in Records : \A at \in since .. Committed : Laid(rec, at) = {}
  BY <1>1 DEF Laid
<1>3. Says({}) = {}
  BY DEF Says, Newest
<1>4. AllHeld
  BY <1>2, <1>3 DEF AllHeld
<1>5. AllKnow
  BY DEF Init, NoSearch, AllKnow, Knows
<1> QED
  BY <1>1, <1>4, <1>5 DEF IndexInv, TrimsBelowSince

\* The log stays, `since' does not fall, and what is trimmed was below it.
LEMMA TrimmedHolds ==
    ASSUME IndexInv, UNCHANGED log, since' \in since .. Committed, entries' = entries,
           \A e \in retired : e.at > since => e \in retired'
    PROVE  AllHeld'
<1>1. Committed \in Nat /\ since \in 0 .. Committed /\ Committed' = Committed
      /\ \A e \in retired : e.at \in 1 .. Committed
  BY Typed DEF IndexInv, TypeOK, Committed
<1> SUFFICES ASSUME NEW r \in Records, NEW at \in since' .. Committed, NEW v \in Says(Laid(r, at))'
             PROVE  Held(r, v, at)'
  BY <1>1 DEF AllHeld
<1>2. at \in since .. Committed
  BY <1>1
<1>3. v \in Says(Laid(r, at))
  BY <1>1 DEF Says, Newest, Laid
<1>4. Held(r, v, at)
  BY <1>2, <1>3 DEF IndexInv, AllHeld
<1>5. \A e \in retired : e.at > at => e \in retired'
  BY <1>1, <1>2
<1> QED
  BY <1>4, <1>5 DEF Held, Entry

\* A landing says nothing new of older versions, and a search that had seen the
\* newest version has not seen this one.
LEMMA LandingKnows ==
    ASSUME IndexInv, NEW e, NEW now, Longer(e, now), UNCHANGED <<since, reader, search>>,
           NEW r \in Readers
    PROVE  Knows(r)'
<1>1. /\ Committed \in Nat /\ Committed' = Committed + 1 /\ Knows(r)
      /\ reader[r].at \in 0 .. Committed /\ search[r].seen \in 0 .. Committed
  BY Typed, FloorTyped DEF IndexInv, AllKnow, TypeOK, Longer
<1>2. search[r].seen # Committed'
  BY <1>1
<1>3. ASSUME NEW rec PROVE Says(Laid(rec, reader[r].at))' = Says(Laid(rec, reader[r].at))
  BY <1>1, LaidBelow
<1> QED
  BY <1>1, <1>2, <1>3 DEF Knows, Entry

\* Nothing a search knows is lost while the log and the entries stand.
LEMMA StandingKnows ==
    ASSUME IndexInv, UNCHANGED <<log, entries>>, since' \in since .. Committed,
           NEW r \in Readers, reader'[r] = reader[r], search'[r] = search[r]
    PROVE  Knows(r)'
<1>1. /\ Committed' = Committed /\ Knows(r) /\ reader[r].at \in 0 .. Committed
      /\ since \in 0 .. Committed /\ Committed \in Nat
  BY Typed, FloorTyped DEF IndexInv, AllKnow, TypeOK, Committed
<1>2. since' <= reader[r].at => since <= reader[r].at
  BY <1>1
<1>3. ASSUME NEW rec PROVE Says(Laid(rec, reader[r].at))' = Says(Laid(rec, reader[r].at))
  BY <1>1 DEF Says, Newest, Laid
<1> QED
  BY <1>1, <1>2, <1>3 DEF Knows, Entry

\* A search's own steps: the retired entries it merges and the entries that stand are
\* all that is held, and at the tail the entries alone are.
LEMMA SearchKnows ==
    ASSUME IndexInv, TypeOK', NEW r \in Readers, Admit(r) \/ MergeRetired(r) \/ ScanLive(r)
    PROVE  Knows(r)'
<1>1. /\ TypeOK /\ Committed \in Nat /\ Knows(r) /\ reader[r].at \in 0 .. Committed
      /\ since \in 0 .. Committed
      /\ search \in [Readers -> Searches(Committed)]
  BY Typed, FloorTyped DEF IndexInv, AllKnow, TypeOK, Searches
<1>2. UNCHANGED <<log, entries, retired, since, reader>> /\ Committed' = Committed
  BY DEF Admit, MergeRetired, ScanLive, dataVars, Committed
<1>3. ASSUME NEW rec PROVE Says(Laid(rec, reader[r].at))' = Says(Laid(rec, reader[r].at))
  BY <1>2 DEF Says, Newest, Laid
<1>4. CASE Admit(r)
  <2>1. /\ reader[r].step = "live" /\ search'[r].step = "admitted"
        /\ search'[r].merges = (reader[r].at < Committed) /\ search'[r].seen = reader[r].at
    BY <1>1, <1>4 DEF Admit
  <2> QED
    BY <1>2, <2>1 DEF Knows
<1>5. CASE MergeRetired(r)
  <2>1. /\ search[r].step = "admitted" /\ search'[r].step = "merged"
        /\ search'[r].merges = search[r].merges /\ search'[r].found = Retired(r)
        /\ search'[r].seen = IF search[r].merges THEN Committed ELSE search[r].seen
    BY <1>1, <1>5 DEF MergeRetired, Searches
  <2>2. reader[r].step = "live" /\ (~search[r].merges => search[r].seen = reader[r].at)
    BY <1>1, <2>1 DEF Knows
  <2>3. ASSUME search'[r].seen = Committed, since <= reader[r].at,
               NEW rec \in Records, NEW val \in Says(Laid(rec, reader[r].at))
        PROVE  Entry(rec, val) \in search'[r].found \cup entries
    <3>1. Held(rec, val, reader[r].at)
      BY <1>1, <2>3 DEF IndexInv, AllHeld
    <3>2. CASE search[r].merges
      BY <2>1, <3>1, <3>2 DEF Held, Retired
    <3>3. CASE ~search[r].merges
      <4>1. reader[r].at = Committed
        BY <2>1, <2>2, <2>3, <3>3
      <4> QED
        BY <1>1, <3>1, <4>1, HeldAtTail
    <3> QED
      BY <3>2, <3>3
  <2> QED
    BY <1>2, <1>3, <2>1, <2>2, <2>3 DEF Knows, Entry
<1>6. CASE ScanLive(r)
  <2>1. search'[r] = [step |-> IF search[r].seen = Committed THEN "done" ELSE "overtaken",
                      merges |-> FALSE, seen |-> 0, found |-> search[r].found \cup entries]
    BY <1>1, <1>6 DEF ScanLive
  <2>2. /\ search[r].step = "merged"
        /\ search'[r].step = IF search[r].seen = Committed THEN "done" ELSE "overtaken"
        /\ search'[r].found = search[r].found \cup entries
    BY <1>6, <2>1 DEF ScanLive
  <2>3. reader[r].step = "live"
    BY <1>1, <2>2 DEF Knows
  <2>4. ASSUME search'[r].step = "done", since <= reader[r].at,
               NEW rec \in Records, NEW val \in Says(Laid(rec, reader[r].at))
        PROVE  Entry(rec, val) \in search'[r].found
    <3>1. search[r].seen = Committed
      BY <2>2, <2>4
    <3> QED
      BY <1>1, <2>2, <2>4, <3>1 DEF Knows
  <2> QED
    BY <1>2, <1>3, <2>2, <2>3, <2>4 DEF Knows, Entry
<1> QED
  BY <1>4, <1>5, <1>6

LEMMA NextIndexInv == ASSUME IndexInv, [Next]_vars PROVE IndexInv'
<1> USE DEF dataVars, vars
<1>1. TypeOK /\ TypeOK' /\ Committed \in Nat /\ since \in 0 .. Committed
  BY NextTyped, Typed DEF IndexInv, TypeOK
<1>2. SUFFICES TrimsBelowSince' /\ AllHeld' /\ AllKnow'
  BY <1>1 DEF IndexInv
<1>3. ASSUME NEW rec \in Records, NEW val \in Values \cup {Gone},
             Commit(rec, val) \/ Resolution(rec, val)
      PROVE  TrimsBelowSince' /\ AllHeld' /\ AllKnow'
  <2>1. PICK across \in BOOLEAN : \E previous : Lands(rec, val, across, previous)
    BY <1>3 DEF Commit, Resolution
  <2>2. PICK previous : Lands(rec, val, across, previous)
    BY <2>1
  <2>3. TrimsBelowSince'
    BY <2>2 DEF Lands, IndexInv, TrimsBelowSince
  <2>4. PICK e, now : Longer(e, now)
    <3>1. Write(rec, val, across) \in Writes
      BY DEF Write, Writes
    <3> QED
      BY <1>1, <2>2, <3>1, AppendIsLonger DEF Lands
  <2>5. UNCHANGED <<since, reader, search>>
    BY <2>2 DEF Lands
  <2>6. AllKnow'
    BY <2>4, <2>5, LandingKnows DEF AllKnow
  <2> QED
    BY <2>2, <2>3, <2>6, LandsHolds
<1>4. CASE OtherPart
  <2>1. TrimsBelowSince'
    BY <1>4 DEF OtherPart, IndexInv, TrimsBelowSince
  <2>2. PICK e, now : Longer(e, now)
    <3>1. Write(None, Gone, FALSE) \in Writes
      BY DEF Write, Writes
    <3> QED
      BY <1>1, <1>4, <3>1, AppendIsLonger DEF OtherPart
  <2>3. UNCHANGED <<since, reader, search>>
    BY <1>4 DEF OtherPart
  <2>4. AllKnow'
    BY <2>2, <2>3, LandingKnows DEF AllKnow
  <2> QED
    BY <1>4, <2>1, <2>4, OtherPartHolds
<1>5. CASE TrimRaises
  <2>1. trim # None /\ trim.floor \in 0 .. Committed
    BY <1>1, <1>5 DEF TrimRaises, TypeOK
  <2>2. trim' = [trim EXCEPT !.raised = TRUE] /\ since' = Max(since, trim.floor)
    BY <1>5 DEF TrimRaises
  <2>3. since' \in since .. Committed /\ trim.floor <= since'
    BY <1>1, <2>1, <2>2 DEF Max
  <2>4. trim'.floor = trim.floor
    BY <2>2
  <2>5. UNCHANGED <<log, entries, retired, reader, search>>
    BY <1>5 DEF TrimRaises
  <2>6. AllKnow'
    BY <2>3, <2>5, StandingKnows DEF AllKnow
  <2> QED
    BY <2>3, <2>4, <2>5, <2>6, TrimmedHolds DEF TrimsBelowSince
<1>6. CASE Trim
  <2>1. PICK gone \in retired : gone.at <= trim.floor /\ retired' = retired \ {gone}
    BY <1>6 DEF Trim
  <2>2. trim # None /\ trim.raised /\ UNCHANGED <<log, entries, since, trim, reader, search>>
    BY <1>6 DEF Trim
  <2>3. trim.floor \in 0 .. Committed /\ trim.floor <= since /\ gone.at \in 1 .. Committed
    BY <1>1, <2>2 DEF IndexInv, TrimsBelowSince, TypeOK
  <2>4. \A e \in retired : e.at > since => e \in retired'
    BY <1>1, <2>1, <2>3
  <2>5. since' \in since .. Committed
    BY <1>1, <2>2
  <2>6. AllKnow'
    BY <2>2, <2>5, StandingKnows DEF AllKnow
  <2> QED
    BY <2>2, <2>3, <2>4, <2>5, <2>6, TrimmedHolds DEF TrimsBelowSince
<1>7. ASSUME UNCHANGED <<log, entries, retired, since>>
      PROVE  /\ AllHeld'
             /\ \A r \in Readers : reader'[r] = reader[r] /\ search'[r] = search[r] => Knows(r)'
             /\ trim' = trim \/ trim' = None => TrimsBelowSince'
  <2>1. since' \in since .. Committed
    BY <1>1, <1>7
  <2>2. trim' = trim \/ trim' = None => TrimsBelowSince'
    BY <1>7 DEF IndexInv, TrimsBelowSince
  <2>3. ASSUME NEW r \in Readers, reader'[r] = reader[r], search'[r] = search[r] PROVE Knows(r)'
    BY <1>7, <2>1, <2>3, StandingKnows
  <2> QED
    BY <1>7, <2>1, <2>2, <2>3, TrimmedHolds
<1>8. CASE TrimBegins
  <2>1. PICK floor : trim' = [floor |-> floor, raised |-> FALSE]
    BY <1>8 DEF TrimBegins
  <2>2. TrimsBelowSince'
    BY <2>1 DEF TrimsBelowSince
  <2>3. UNCHANGED <<log, entries, retired, since, reader, search>>
    BY <1>8 DEF TrimBegins
  <2> QED
    BY <1>7, <2>2, <2>3 DEF AllKnow
<1>9. ASSUME NEW r \in Readers, Admit(r) \/ MergeRetired(r) \/ ScanLive(r)
      PROVE  TrimsBelowSince' /\ AllHeld' /\ AllKnow'
  <2>1. UNCHANGED <<log, entries, retired, since, trim, reader>>
    BY <1>9 DEF Admit, MergeRetired, ScanLive
  <2>2. \A q \in Readers : q # r => search'[q] = search[q]
    BY <1>1, <1>9 DEF Admit, MergeRetired, ScanLive, TypeOK
  <2>3. Knows(r)'
    BY <1>1, <1>9, SearchKnows
  <2> QED
    BY <1>7, <2>1, <2>2, <2>3 DEF AllKnow
<1>10. ASSUME NEW r \in Readers, Begin(r) \/ BeginAt(r) \/ Register(r) \/ Release(r)
       PROVE  TrimsBelowSince' /\ AllHeld' /\ AllKnow'
  <2>1. UNCHANGED <<log, entries, retired, since, trim>>
    BY <1>10 DEF Begin, BeginAt, Chooses, Register, Release
  <2>2. \A q \in Readers : q # r => reader'[q] = reader[q] /\ search'[q] = search[q]
    BY <1>1, <1>10 DEF Begin, BeginAt, Chooses, Register, Release, TypeOK
  <2>3. search'[r].step = "none"
    <3>1. CASE Release(r)
      BY <1>1, <3>1 DEF Release, NoSearch, TypeOK
    <3>2. CASE Begin(r) \/ BeginAt(r) \/ Register(r)
      <4>1. reader[r].step # "live" /\ UNCHANGED search
        BY <3>2 DEF Begin, BeginAt, Chooses, Register
      <4> QED
        BY <4>1 DEF IndexInv, AllKnow, Knows
    <3> QED
      BY <1>10, <3>1, <3>2
  <2>4. Knows(r)'
    BY <2>3 DEF Knows
  <2> QED
    BY <1>7, <2>1, <2>2, <2>4 DEF AllKnow
<1>11. CASE Reopen
  <2>1. UNCHANGED <<log, entries, retired, since>> /\ trim' = None
    BY <1>11 DEF Reopen
  <2>2. \A r \in Readers : search'[r].step = "none"
    BY <1>11 DEF Reopen, NoSearch
  <2>3. AllKnow'
    BY <2>2 DEF AllKnow, Knows
  <2> QED
    BY <1>7, <2>1, <2>3
<1>12. CASE /\ UNCHANGED <<log, entries, retired, since, reader, search>>
            /\ trim' = trim \/ trim' = None
  BY <1>7, <1>12 DEF AllKnow
<1>13. \/ \E rec \in Records, val \in Values \cup {Gone} : Commit(rec, val) \/ Resolution(rec, val)
       \/ \E r \in Readers : \/ Begin(r) \/ BeginAt(r) \/ Register(r) \/ Release(r)
                             \/ Admit(r) \/ MergeRetired(r) \/ ScanLive(r)
       \/ OtherPart \/ TrimBegins \/ TrimRaises \/ Trim \/ Reopen
       \/ /\ UNCHANGED <<log, entries, retired, since, reader, search>>
          /\ trim' = trim \/ trim' = None
  BY DEF Next, Land, PassBegins, Fold, Sweep, TrimEnds
<1> QED
  BY <1>3, <1>4, <1>5, <1>6, <1>8, <1>9, <1>10, <1>11, <1>12, <1>13

\* Where no write of T is passed over, what was laid is what should be read.
LEMMA KnownIsFound == IndexInv => IndexFindsOutsideT
<1> SUFFICES ASSUME IndexInv, NEW r \in Readers, search[r].step = "done",
                    since <= reader[r].at, ~PassedOver(reader[r].at),
                    NEW rec \in Records, NEW val \in Past(rec, reader[r].at)
             PROVE  Entry(rec, val) \in search[r].found
  BY DEF IndexFindsOutsideT
<1>1. Committed \in Nat /\ reader[r].at \in 0 .. Committed
  BY Typed, FloorTyped DEF IndexInv
<1>2. Written(rec, reader[r].at) = Laid(rec, reader[r].at)
  <2>1. \A v \in 1 .. Committed : v <= reader[r].at => v \in 1 .. reader[r].at
    BY <1>1
  <2>2. HoldsWhole(reader[r].at) \/ \A v \in 1 .. reader[r].at : ~log[v].across
    BY DEF PassedOver
  <2> QED
    BY <2>1, <2>2 DEF Written, Laid
<1> QED
  BY <1>2 DEF Past, IndexInv, AllKnow, Knows

\* A search that no commit overtook finds every record a scan would, where no write of
\* T is passed over, however commits, trims, other readers and crashes fall between its
\* admission, its read of the retired entries and its read of those that stand
\* (declared_for, retired_candidates, records_in_range, index::maintain,
\* reclaim_retired_entries).
THEOREM IndexLosesNothing == Spec => []IndexFindsOutsideT
  BY InitIndexInv, NextIndexInv, KnownIsFound, PTL DEF Spec
=============================================================================
