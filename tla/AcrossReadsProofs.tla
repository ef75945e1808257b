-------------------------- MODULE AcrossReadsProofs --------------------------
(***************************************************************************)
(* Proofs about AcrossReads, for every set of ranges and however far each  *)
(* copy lags.                                                              *)
(*                                                                         *)
(* A copy is behind what a majority holds, and what is held only grows: a  *)
(* part seen landed has landed, one seen kept or dropped stays so.  So a   *)
(* reader that shows T has evidence that T won, which lasts.  A reader     *)
(* refused T, though its caller had been told it committed, asked when the *)
(* record was gone: a record once gone under a landed part does not stand  *)
(* again.  All of this until a settle overtakes T's begin.                 *)
(***************************************************************************)
EXTENDS AcrossReads, AcrossProofs, SequenceTheorems

\* The record has gone from under a part of T that landed.
Fallen(e) == e.landed /\ Unset(e)

\* What a later state f of range r has of an earlier state e.
Later(r, e, f) == Keeps(e, f) /\ (r = Coord /\ Fallen(e) => Fallen(f))

Clean(e) == Sound(e) /\ e.value # "other"

\* Nobody else writes, and the record does not stand again.
Calm ==
    \A r \in Ranges :
        /\ \A k \in 1 .. Len(line[r]) : Clean(line[r][k])
        /\ \A j, k \in 1 .. Len(line[r]) : j <= k => Later(r, line[r][j], line[r][k])

\* The copies are behind the majorities.
Feeds ==
    /\ feed \in [Ranges -> Seq(Entries)]
    /\ \A r \in Ranges :
          /\ Len(feed[r]) >= 1
          /\ \A k \in 1 .. Len(feed[r]) : Clean(feed[r][k]) /\ Later(r, feed[r][k], Kept(r))
          /\ \A j, k \in 1 .. Len(feed[r]) : j <= k => Later(r, feed[r][j], feed[r][k])

\* The snapshot is behind the copies.
Snaps ==
    snap # None =>
        /\ snap \in [Ranges -> Entries]
        /\ \A r \in Ranges : Clean(snap[r]) /\ Later(r, snap[r], Copy(r))

Shows(r) == snap[r].intent \/ snap[r].value = "T"

\* What the reader has found out and shown.
Seeing ==
    /\ sees \in BOOLEAN \cup {None} /\ unheard \in BOOLEAN
    /\ saw \in [Ranges -> {"read", "other", "T", None}]
    /\ snap = None => sees = None /\ \A r \in Ranges : saw[r] = None
    /\ sees = TRUE => Won /\ HoldsEveryPart
    /\ (\E r \in Ranges : saw[r] = "T") => sees = TRUE
    /\ after = "committed" => told = "committed"
    /\ sees = FALSE /\ after = "committed" /\ HoldsEveryPart /\ ~unheard => Fallen(Kept(Coord))
    /\ StillStanding => \A r \in Ranges : saw[r] # None /\ Shows(r) =>
          /\ sees # None
          /\ saw[r] = IF sees THEN "T" ELSE "read"

ReadInv == Inv /\ Calm /\ Feeds /\ Snaps /\ Seeing

---------------------------------------------------------------------------
(* What one step of the driver, of a leader or of housekeeping adds to the *)
(* lines: nothing, or one state that says no more than it may.             *)

Adds(r, s) ==
    /\ Grown(r, s)
    /\ s.value \in {Tip(r).value, "T"}
    /\ r = Coord /\ Fallen(Tip(r)) => Unset(s)

Grows == line' = line \/ \E r \in Ranges, s \in Entries : Adds(r, s)

\* A range that keeps T's record as it stands.
LEMMA PartGrows ==
    ASSUME Inv, NEW r \in Ranges, NEW s \in Entries, Apply(r, s),
           s.rec = Tip(r).rec, s.value \in {Tip(r).value, "T"}
    PROVE  Grows
<1>1. Grown(r, s)
  BY Applied DEF Inv
<1>2. Fallen(Tip(r)) => Unset(s)
  BY DEF Fallen, Unset, Is
<1> QED
  BY <1>1, <1>2 DEF Grows, Adds

\* Coord writes T's record.
LEMMA RecordGrows ==
    ASSUME Inv, NEW R \in Recs \cup {None}, Apply(Coord, [Tip(Coord) EXCEPT !.rec = R]),
           Fallen(Tip(Coord)) => R = None \/ R.is = "aborted"
    PROVE  Grows
<1>1. Coord \in Ranges /\ Typed /\ Tip(Coord) \in Entries
  BY AcrossAssumption, TipFacts DEF Inv
<1>2. PICK s \in Entries : s = [Tip(Coord) EXCEPT !.rec = R]
  BY <1>1 DEF Entries
<1>3. s.rec = R /\ s.value = Tip(Coord).value
  BY <1>1, <1>2 DEF Entries
<1>4. Grown(Coord, s)
  BY <1>1, <1>2, Applied
<1>5. Fallen(Tip(Coord)) => Unset(s)
  BY <1>3 DEF Unset, Is
<1> QED
  BY <1>1, <1>3, <1>4, <1>5 DEF Grows, Adds

\* Once the record has fallen it is absent or aborted, and accepts only that.
LEMMA FallenAccepts ==
    ASSUME NEW e \in Entries, Fallen(e), NEW decision, NEW begins, Accepts(e.rec, decision, begins)
    PROVE  decision # "committed"
<1>1. e.rec = None \/ (e.rec # None /\ e.rec.is = "aborted")
  BY DEF Fallen, Unset, Is
<1> QED
  BY <1>1 DEF Accepts, Decided

LEMMA SettleGrows ==
    ASSUME Inv, Reading, NEW s \in settling, SettleWrites(s)
    PROVE  Grows
<1>1. /\ s.writes \in Recs
      /\ s.writes.is \in {"committed", "aborted"}
      /\ s.writes.is = "committed" => s.writes = Tip(Coord).rec
  BY DEF Reading, ReadBy, Settles, Recs, Standings
<1>2. Fallen(Tip(Coord)) => s.writes.is = "aborted"
  BY <1>1, NoneIsApart DEF Fallen, Unset, Is
<1>3. CASE Accepts(Tip(Coord).rec, s.writes.is, FALSE)
  <2>1. Apply(Coord, [Tip(Coord) EXCEPT !.rec = s.writes])
    BY <1>3 DEF SettleWrites
  <2> QED
    BY <1>1, <1>2, <2>1, RecordGrows
<1>4. CASE ~Accepts(Tip(Coord).rec, s.writes.is, FALSE)
  BY <1>4 DEF SettleWrites, Grows
<1> QED
  BY <1>3, <1>4

LEMMA PreventGrows ==
    ASSUME Inv, NEW r \in Ranges, Prevent(r)
    PROVE  Grows
<1>1. Tip(r) \in Entries
  BY TipFacts
<1>2. CASE UNCHANGED line
  BY <1>2 DEF Grows
<1>3. CASE Apply(r, [Tip(r) EXCEPT !.barred = TRUE])
  <2>1. PICK s \in Entries : s = [Tip(r) EXCEPT !.barred = TRUE]
    BY <1>1 DEF Entries
  <2>2. s.rec = Tip(r).rec /\ s.value = Tip(r).value
    BY <1>1, <2>1 DEF Entries
  <2> QED
    BY <1>3, <2>1, <2>2, PartGrows
<1> QED
  BY <1>2, <1>3 DEF Prevent

LEMMA ResolveGrows ==
    ASSUME Inv, NEW r \in Ranges, NEW c \in BOOLEAN, Apply(r, Resolve(Tip(r), c))
    PROVE  Grows
<1>1. Tip(r) \in Entries /\ Sound(Tip(r))
  BY TipFacts
<1>2. PICK s \in Entries : s = Resolve(Tip(r), c)
  BY <1>1, ResolveFacts
<1>3. s.rec = Tip(r).rec
  BY <1>1, <1>2, ResolveFacts
<1>4. s.value \in {Tip(r).value, "T"}
  BY <1>1, <1>2 DEF Resolve, Entries
<1> QED
  BY <1>2, <1>3, <1>4, PartGrows

LEMMA LeaderGrows ==
    ASSUME Inv, Reading, Leader
    PROVE  Grows
<1>1. Coord \in Ranges /\ Tip(Coord) \in Entries /\ Asks /\ Typed
  BY AcrossAssumption, TipFacts DEF Inv
<1>2. CASE Begin
  <2>1. CASE UNCHANGED line
    BY <2>1 DEF Grows
  <2>2. CASE Apply(Coord, [Tip(Coord) EXCEPT !.rec = [is |-> "staging", of |-> Ranges],
                                             !.intent = TRUE, !.landed = TRUE])
    <3>1. ~Tip(Coord).landed
      BY <1>1, <1>2 DEF Begin, Arrives, Asks, Sent
    <3>2. PICK s \in Entries : s = [Tip(Coord) EXCEPT !.rec = [is |-> "staging", of |-> Ranges],
                                                      !.intent = TRUE, !.landed = TRUE]
      BY <1>1 DEF Entries, Recs, Standings
    <3>3. Grown(Coord, s) /\ s.value = Tip(Coord).value
      <4>1. Grown(Coord, s)
        BY <1>1, <2>2, <3>2, Applied
      <4>2. s.value = Tip(Coord).value
        BY <1>1, <3>2 DEF Entries
      <4> QED
        BY <4>1, <4>2
    <3> QED
      BY <1>1, <3>1, <3>3 DEF Grows, Adds, Fallen
  <2> QED
    BY <1>2, <2>1, <2>2 DEF Begin
<1>3. CASE Settle \/ Lookup
  BY <1>3 DEF Settle, Lookup, Grows
<1>4. CASE \E s \in settling : SettleWrites(s)
  BY <1>4, SettleGrows
<1>5. CASE Conclude
  <2>1. CASE UNCHANGED line
    BY <2>1 DEF Grows
  <2>2. CASE /\ Accepts(Tip(Coord).rec, "committed", FALSE)
             /\ Apply(Coord, Resolve([Tip(Coord) EXCEPT !.rec = [is |-> "committed", of |-> Ranges]], TRUE))
    <3>1. ~Fallen(Tip(Coord))
      BY <1>1, <2>2, FallenAccepts
    <3>2. PICK e \in Entries : e = [Tip(Coord) EXCEPT !.rec = [is |-> "committed", of |-> Ranges]]
      BY <1>1 DEF Entries, Recs, Standings
    <3>3. /\ e.value = Tip(Coord).value /\ e.intent = Tip(Coord).intent /\ e.landed = Tip(Coord).landed
          /\ e.barred = Tip(Coord).barred /\ e.fate = Tip(Coord).fate
      BY <1>1, <3>2 DEF Entries
    <3>4. Sound(e)
      BY <1>1, <3>3, TipFacts DEF Sound
    <3>5. PICK c \in BOOLEAN : c = TRUE
      OBVIOUS
    <3>6. PICK s \in Entries : s = Resolve(e, c)
      BY <3>4, ResolveFacts
    <3>7. s.value \in {Tip(Coord).value, "T"}
      BY <3>3, <3>6 DEF Resolve, Entries
    <3>8. Grown(Coord, s)
      BY <1>1, <2>2, <3>2, <3>5, <3>6, Applied
    <3> QED
      BY <1>1, <3>1, <3>7, <3>8 DEF Grows, Adds
  <2> QED
    BY <1>5, <2>1, <2>2 DEF Conclude
<1>6. ASSUME NEW kind \in {"open", "commit", "abort"}, Decide(kind)
      PROVE  Grows
  <2>1. CASE UNCHANGED line
    BY <2>1 DEF Grows
  <2>2. CASE /\ Accepts(Tip(Coord).rec, Decision(kind), FALSE)
             /\ Apply(Coord, [Tip(Coord) EXCEPT !.rec = [is |-> Decision(kind), of |-> Ranges]])
    <3>1. Fallen(Tip(Coord)) => Decision(kind) = "aborted"
      <4>1. CASE kind = "open"
        BY <1>1, <1>6, <4>1 DEF Decide, Arrives, Asks, Sent, Fallen
      <4>2. CASE kind = "commit"
        BY <1>1, <2>2, <4>2, FallenAccepts DEF Decision
      <4>3. CASE kind = "abort"
        BY <4>3 DEF Decision
      <4> QED
        BY <4>1, <4>2, <4>3
    <3>2. Decision(kind) \in Standings
      BY DEF Decision, Standings
    <3>3. PICK R \in Recs : R = [is |-> Decision(kind), of |-> Ranges]
      BY <3>2 DEF Recs
    <3>4. R.is = Decision(kind)
      BY <3>3
    <3> QED
      BY <2>2, <3>1, <3>3, <3>4, RecordGrows
  <2> QED
    BY <1>6, <2>1, <2>2 DEF Decide
<1>7. ASSUME NEW r \in Ranges, Prepare(r)
      PROVE  Grows
  <2>1. CASE UNCHANGED line
    BY <2>1 DEF Grows
  <2>2. CASE Apply(r, [Tip(r) EXCEPT !.intent = TRUE, !.landed = TRUE])
    <3>1. Tip(r) \in Entries
      BY TipFacts
    <3>2. PICK s \in Entries : s = [Tip(r) EXCEPT !.intent = TRUE, !.landed = TRUE]
      BY <3>1 DEF Entries
    <3>3. s.rec = Tip(r).rec /\ s.value = Tip(r).value
      BY <3>1, <3>2 DEF Entries
    <3> QED
      BY <2>2, <3>2, <3>3, PartGrows
  <2> QED
    BY <1>7, <2>1, <2>2 DEF Prepare
<1>8. ASSUME NEW r \in Ranges, Bar(r)
      PROVE  Grows
  BY <1>8, PreventGrows DEF Bar
<1>9. ASSUME NEW r \in Ranges, NEW kind \in {"keep", "drop"}, ResolvePart(kind, r)
      PROVE  Grows
  <2>1. PICK c \in BOOLEAN : c = (kind = "keep")
    OBVIOUS
  <2> QED
    BY <1>9, <2>1, ResolveGrows DEF ResolvePart
<1> QED
  BY <1>2, <1>3, <1>4, <1>5, <1>6, <1>7, <1>8, <1>9 DEF Leader

LEMMA HouseGrows ==
    ASSUME Inv, House
    PROVE  Grows
<1>1. Coord \in Ranges /\ Tip(Coord) \in Entries /\ Typed
  BY AcrossAssumption, TipFacts DEF Inv
<1>2. CASE HouseAbort \/ LaggardAsk
  BY <1>2 DEF HouseAbort, LaggardAsk, Grows
<1>3. CASE HouseRecover
  BY <1>3 DEF HouseRecover, Grows
<1>4. CASE HouseDecide
  <2>1. CASE UNCHANGED line
    BY <2>1 DEF Grows
  <2>2. CASE /\ Accepts(Tip(Coord).rec, Recovered, FALSE) /\ Recovered # None
             /\ Apply(Coord, [Tip(Coord) EXCEPT !.rec = [is |-> Recovered, of |-> Ranges]])
    <3>1. Recovered \in {"committed", "aborted"}
      BY <2>2 DEF Recovered
    <3>2. PICK R \in Recs : R = [is |-> Recovered, of |-> Ranges]
      BY <3>1 DEF Recs, Standings
    <3>3. R.is = Recovered
      BY <3>2
    <3>4. Fallen(Tip(Coord)) => R.is = "aborted"
      BY <1>1, <2>2, <3>1, <3>3, FallenAccepts
    <3> QED
      BY <2>2, <3>2, <3>4, RecordGrows
  <2> QED
    BY <1>4, <2>1, <2>2 DEF HouseDecide
<1>5. CASE HouseForget
  <2>1. PICK R \in Recs \cup {None} : R = None
    OBVIOUS
  <2> QED
    BY <1>5, <2>1, RecordGrows DEF HouseForget
<1>6. ASSUME NEW r \in Ranges, HouseAsk(r)
      PROVE  Grows
  BY <1>6 DEF HouseAsk, Grows
<1>7. ASSUME NEW r \in Ranges, HouseResolve(r)
      PROVE  Grows
  <2>1. PICK c \in BOOLEAN : c = (verdict[r].says = "committed")
    OBVIOUS
  <2> QED
    BY <1>7, <2>1, ResolveGrows DEF HouseResolve
<1>8. ASSUME NEW r \in Ranges, HouseBar(r)
      PROVE  Grows
  BY <1>8, PreventGrows DEF HouseBar
<1>9. ASSUME NEW r \in Ranges, HouseHolds(r)
      PROVE  Grows
  BY <1>9 DEF HouseHolds, Grows
<1> QED
  BY <1>2, <1>3, <1>4, <1>5, <1>6, <1>7, <1>8, <1>9 DEF House

LEMMA DriverGrows ==
    ASSUME Driver \/ Lapse
    PROVE  Grows
<1>1. line' = line
  BY DEF Driver, Lapse, Start, Finish, FinishParallel, Recover, Hear, GiveUp, HearPrepared, MissPrepared
<1> QED
  BY <1>1 DEF Grows

---------------------------------------------------------------------------
(* Lines and what is held of them, one step later.                         *)

LEMMA LaterTrans ==
    ASSUME NEW r, NEW e, NEW f, NEW g, Later(r, e, f), Later(r, f, g)
    PROVE  Later(r, e, g)
<1>1. Keeps(e, g)
  BY DEF Later, Keeps
<1> QED
  BY <1>1 DEF Later

LEMMA GrowsCalm ==
    ASSUME Inv, Calm, Inv', Grows
    PROVE  Calm' /\ \A x \in Ranges : Kept(x)' = Kept(x)
<1>1. CASE line' = line
  BY <1>1 DEF Calm, Kept
<1>2. ASSUME NEW r \in Ranges, NEW s \in Entries, Adds(r, s)
      PROVE  Calm' /\ \A x \in Ranges : Kept(x)' = Kept(x)
  <2>1. Grown(r, s)
    BY <1>2 DEF Adds
  <2>2. /\ \A x \in Ranges : x # r => line'[x] = line[x]
        /\ Len(line'[r]) \in Nat /\ Len(line'[r]) >= Len(line[r])
        /\ \A k \in 1 .. Len(line[r]) : line'[r][k] = line[r][k]
        /\ \A k \in 1 .. Len(line'[r]) : k \in 1 .. Len(line[r]) \/ k = Len(line'[r])
        /\ line'[r][Len(line'[r])] = s
        /\ \A x \in Ranges : line'[x][1] = line[x][1]
    BY <2>1 DEF Grown
  <2>3. /\ \A k \in 1 .. Len(line[r]) : Clean(line[r][k])
        /\ \A j, k \in 1 .. Len(line[r]) : j <= k => Later(r, line[r][j], line[r][k])
        /\ Len(line[r]) \in Nat /\ Len(line[r]) >= 1 /\ Len(line[r]) \in 1 .. Len(line[r])
        /\ Tip(r) = line[r][Len(line[r])]
    BY Entry DEF Calm, Inv, Tip
  <2>4. \A k \in 1 .. Len(line'[r]) : Sound(line'[r][k])
    BY DEF Inv, Lines
  <2>5. \A j, k \in 1 .. Len(line'[r]) : j <= k => Keeps(line'[r][j], line'[r][k])
    BY DEF Inv, Lines
  <2>6. Clean(s)
    <3>1. Sound(s)
      BY <2>2, <2>3, <2>4
    <3>2. s.value # "other"
      BY <1>2, <2>3 DEF Adds, Clean
    <3> QED
      BY <3>1, <3>2 DEF Clean
  <2>7. ASSUME NEW k \in 1 .. Len(line'[r]) PROVE Clean(line'[r][k])
    BY <2>2, <2>3, <2>6
  <2>8. ASSUME NEW j \in 1 .. Len(line'[r]), NEW k \in 1 .. Len(line'[r]), j <= k
        PROVE  Later(r, line'[r][j], line'[r][k])
    <3>1. CASE k \in 1 .. Len(line[r])
      <4>1. j \in 1 .. Len(line[r])
        BY <2>3, <2>8, <3>1
      <4> QED
        BY <2>2, <2>3, <2>8, <3>1, <4>1
    <3>2. CASE k \notin 1 .. Len(line[r]) /\ j \in 1 .. Len(line[r])
      <4>1. line'[r][k] = s /\ line'[r][j] = line[r][j]
        BY <2>2, <3>2
      <4>2. Later(r, line[r][j], Tip(r))
        BY <2>3, <3>2
      <4>3. Keeps(line'[r][j], line'[r][k])
        BY <2>5, <2>8
      <4>4. r = Coord /\ Fallen(line[r][j]) => Fallen(s)
        BY <1>2, <4>1, <4>2, <4>3 DEF Later, Adds, Fallen, Keeps
      <4> QED
        BY <4>1, <4>3, <4>4 DEF Later
    <3>3. CASE k \notin 1 .. Len(line[r]) /\ j \notin 1 .. Len(line[r])
      <4>1. j = k
        BY <2>2, <3>3
      <4> QED
        BY <4>1 DEF Later, Keeps
    <3> QED
      BY <3>1, <3>2, <3>3
  <2>9. ASSUME NEW x \in Ranges, x # r
        PROVE  /\ \A k \in 1 .. Len(line'[x]) : Clean(line'[x][k])
               /\ \A j, k \in 1 .. Len(line'[x]) : j <= k => Later(x, line'[x][j], line'[x][k])
    BY <2>2, <2>9 DEF Calm
  <2>10. Calm'
    BY <2>7, <2>8, <2>9 DEF Calm
  <2> QED
    BY <2>2, <2>10 DEF Kept
<1> QED
  BY <1>1, <1>2 DEF Grows

\* A majority holds n - 1 more places of range r's line.
Drops(r, n) ==
    /\ n \in 2 .. Len(line[r])
    /\ \A x \in Ranges : x # r => line'[x] = line[x]
    /\ Len(line'[r]) = Len(line[r]) - n + 1
    /\ \A k \in 1 .. Len(line[r]) - n + 1 : line'[r][k] = line[r][k + n - 1]

LEMMA ReplicateDrops ==
    ASSUME Inv, NEW r \in Ranges, Replicate(r)
    PROVE  \E n \in Nat : Drops(r, n)
<1>1. PICK n \in 2 .. Len(line[r]) : line' = [line EXCEPT ![r] = SubSeq(@, n, Len(@))]
  BY DEF Replicate
<1>2. line \in [Ranges -> Seq(Entries)] /\ Len(line[r]) \in Nat
  BY Entry DEF Inv, Typed
<1>3. line[r] \in Seq(Entries) /\ n \in Nat
  BY <1>2
<1>4. line'[r] = SubSeq(line[r], n, Len(line[r])) /\ \A x \in Ranges : x # r => line'[x] = line[x]
  BY <1>1, <1>2
<1>5. /\ Len(SubSeq(line[r], n, Len(line[r]))) = Len(line[r]) - n + 1
      /\ \A k \in 1 .. Len(line[r]) - n + 1 : SubSeq(line[r], n, Len(line[r]))[k] = line[r][k + n - 1]
  BY <1>2, <1>3
<1> QED
  BY <1>3, <1>4, <1>5 DEF Drops

LEMMA DropsCalm ==
    ASSUME Inv, Calm, NEW r \in Ranges, NEW n \in Nat, Drops(r, n)
    PROVE  /\ Calm' /\ \A x \in Ranges : Later(x, Kept(x), Kept(x)')
           /\ Kept(r)' = line[r][n]
<1>1. /\ n \in 2 .. Len(line[r]) /\ Len(line'[r]) = Len(line[r]) - n + 1
      /\ \A k \in 1 .. Len(line[r]) - n + 1 : line'[r][k] = line[r][k + n - 1]
      /\ \A x \in Ranges : x # r => line'[x] = line[x]
      /\ Len(line[r]) \in Nat
  BY Entry DEF Drops, Inv
<1>2. /\ \A k \in 1 .. Len(line[r]) : Clean(line[r][k])
      /\ \A j, k \in 1 .. Len(line[r]) : j <= k => Later(r, line[r][j], line[r][k])
  BY DEF Calm
<1>3. \A k \in 1 .. Len(line'[r]) : k + n - 1 \in 1 .. Len(line[r]) /\ line'[r][k] = line[r][k + n - 1]
  BY <1>1
<1>4. \A k \in 1 .. Len(line'[r]) : Clean(line'[r][k])
  BY <1>2, <1>3
<1>5. ASSUME NEW j \in 1 .. Len(line'[r]), NEW k \in 1 .. Len(line'[r]), j <= k
      PROVE  Later(r, line'[r][j], line'[r][k])
  <2>1. j + n - 1 <= k + n - 1
    BY <1>1, <1>5
  <2> QED
    BY <1>2, <1>3, <2>1
<1>6. ASSUME NEW x \in Ranges, x # r
      PROVE  /\ \A k \in 1 .. Len(line'[x]) : Clean(line'[x][k])
             /\ \A j, k \in 1 .. Len(line'[x]) : j <= k => Later(x, line'[x][j], line'[x][k])
             /\ Later(x, Kept(x), Kept(x)')
  <2>1. line'[x] = line[x]
    BY <1>1, <1>6
  <2> QED
    BY <2>1 DEF Calm, Later, Keeps, Kept
<1>7. Kept(r)' = line[r][n] /\ Later(r, Kept(r), Kept(r)')
  <2>1. 1 \in 1 .. Len(line'[r]) /\ 1 + n - 1 = n /\ 1 \in 1 .. Len(line[r]) /\ n \in 1 .. Len(line[r]) /\ 1 <= n
    BY <1>1
  <2>2. Kept(r)' = line[r][n]
    BY <1>3, <2>1 DEF Kept
  <2> QED
    BY <1>2, <2>1, <2>2 DEF Kept
<1>8. Calm'
  BY <1>4, <1>5, <1>6 DEF Calm
<1> QED
  BY <1>6, <1>7, <1>8

LEMMA WonLasts ==
    ASSUME Inv, merged' = merged, \A x \in Ranges : Later(x, Kept(x), Kept(x)')
    PROVE  (Won => Won') /\ (Fallen(Kept(Coord)) => Fallen(Kept(Coord))')
<1>1. Coord \in Ranges
  BY AcrossAssumption
<1>2. Won => Won'
  BY <1>1 DEF Won, Everywhere, Later, Keeps
<1>3. Fallen(Kept(Coord)) => Fallen(Kept(Coord))'
  BY <1>1 DEF Later, Fallen, Unset, Is
<1> QED
  BY <1>2, <1>3

LEMMA ToldLasts ==
    ASSUME Inv, Driver \/ Leader \/ House \/ Lapse
    PROVE  merged' = merged /\ (told = "committed" => told' = "committed")
<1>1. CASE Leader \/ House \/ Lapse
  BY <1>1 DEF Leader, House, Lapse, Begin, Settle, Lookup, Conclude, Decide, SettleWrites,
              Prepare, Bar, ResolvePart, HouseAbort, LaggardAsk, HouseRecover, HouseDecide, HouseForget, HouseAsk, HouseResolve,
              HouseBar, HouseHolds, driverVars
<1>2. CASE Driver
  <2>1. merged' = merged
    BY <1>2 DEF Driver, Start, Finish, FinishParallel, Recover, Hear, GiveUp, HearPrepared, MissPrepared
  <2>2. told # None <=> pc = "done"
    BY DEF Inv, Drives
  <2>3. told' = told \/ pc # "done"
    BY <1>2 DEF Driver, Start, Finish, FinishParallel, Recover, Hear, GiveUp, HearPrepared, MissPrepared
  <2> QED
    BY <2>1, <2>2, <2>3, NoneIsApart
<1> QED
  BY <1>1, <1>2

---------------------------------------------------------------------------
(* The copies.                                                             *)

LEMMA CopyFacts ==
    ASSUME Feeds, NEW r \in Ranges
    PROVE  /\ Copy(r) = feed[r][1] /\ Copy(r) \in Entries /\ Clean(Copy(r)) /\ Later(r, Copy(r), Kept(r))
           /\ Len(feed[r]) \in Nat /\ 1 \in 1 .. Len(feed[r]) /\ feed[r] \in Seq(Entries)
<1>1. feed[r] \in Seq(Entries) /\ Len(feed[r]) >= 1
  BY DEF Feeds
<1>2. Len(feed[r]) \in Nat /\ 1 \in 1 .. Len(feed[r]) /\ feed[r] # <<>>
  BY <1>1
<1>3. Copy(r) = feed[r][1] /\ feed[r][1] \in Entries
  BY <1>1, <1>2 DEF Copy
<1> QED
  BY <1>1, <1>2, <1>3 DEF Feeds

\* What a snapshot holds has not been undone where it was copied from.
LEMMA SnapFacts ==
    ASSUME Feeds, Snaps, snap # None, NEW r \in Ranges
    PROVE  /\ snap[r] \in Entries /\ Clean(snap[r])
           /\ Later(r, snap[r], Copy(r)) /\ Later(r, snap[r], Kept(r))
<1>1. snap[r] \in Entries /\ Clean(snap[r]) /\ Later(r, snap[r], Copy(r))
  BY DEF Snaps
<1>2. Later(r, Copy(r), Kept(r))
  BY CopyFacts
<1> QED
  BY <1>1, <1>2, LaterTrans

\* The copies stay, and majorities hold no less.
LEMMA FeedsStay ==
    ASSUME Feeds, UNCHANGED feed, \A x \in Ranges : Later(x, Kept(x), Kept(x)')
    PROVE  Feeds'
<1>1. ASSUME NEW x \in Ranges, NEW k \in 1 .. Len(feed[x])
      PROVE  Clean(feed[x][k]) /\ Later(x, feed[x][k], Kept(x)')
  BY LaterTrans DEF Feeds
<1> QED
  BY <1>1 DEF Feeds

LEMMA CollectFeeds ==
    ASSUME Inv, Calm, Feeds, NEW r \in Ranges, Collect(r), NEW n \in Nat, Drops(r, n)
    PROVE  /\ Feeds'
           /\ \A x \in Ranges : Copy(x)' = Copy(x)
<1>1. /\ n \in 2 .. Len(line[r]) /\ Len(line'[r]) = Len(line[r]) - n + 1
      /\ Len(line[r]) \in Nat /\ line[r] \in Seq(Entries)
  BY Entry DEF Drops, Inv, Typed
<1>2. 1 + Len(line[r]) - Len(line'[r]) = n
  BY <1>1
<1>3. PICK more : more = SubSeq(line[r], 2, n)
  OBVIOUS
<1>4. /\ more \in Seq(Entries) /\ Len(more) = n - 1
      /\ \A k \in 1 .. n - 1 : more[k] = line[r][k + 1]
  BY <1>1, <1>3
<1>5. /\ feed \in [Ranges -> Seq(Entries)] /\ feed[r] \in Seq(Entries) /\ Len(feed[r]) \in Nat
      /\ Len(feed[r]) >= 1
  BY CopyFacts DEF Feeds
<1>6. feed' = [feed EXCEPT ![r] = feed[r] \o more]
  BY <1>2, <1>3 DEF Collect
<1>7. /\ feed[r] \o more \in Seq(Entries)
      /\ Len(feed[r] \o more) = Len(feed[r]) + n - 1
      /\ \A k \in 1 .. Len(feed[r]) : (feed[r] \o more)[k] = feed[r][k]
      /\ \A k \in Len(feed[r]) + 1 .. Len(feed[r]) + n - 1 :
            (feed[r] \o more)[k] = more[k - Len(feed[r])]
  <2>1. /\ feed[r] \o more \in Seq(Entries)
        /\ Len(feed[r] \o more) = Len(feed[r]) + Len(more)
        /\ \A k \in 1 .. Len(feed[r]) + Len(more) : (feed[r] \o more)[k] =
              IF k <= Len(feed[r]) THEN feed[r][k] ELSE more[k - Len(feed[r])]
    BY <1>4, <1>5, ConcatProperties
  <2>2. Len(feed[r]) + Len(more) = Len(feed[r]) + n - 1
    BY <1>1, <1>4, <1>5
  <2>3. \A k \in 1 .. Len(feed[r]) : k \in 1 .. Len(feed[r]) + Len(more) /\ k <= Len(feed[r])
    BY <1>1, <1>4, <1>5
  <2>4. \A k \in Len(feed[r]) + 1 .. Len(feed[r]) + n - 1 :
           k \in 1 .. Len(feed[r]) + Len(more) /\ ~(k <= Len(feed[r]))
    BY <1>1, <1>4, <1>5
  <2> QED
    BY <2>1, <2>2, <2>3, <2>4
<1>8. /\ feed'[r] = feed[r] \o more /\ feed' \in [Ranges -> Seq(Entries)]
      /\ \A x \in Ranges : x # r => feed'[x] = feed[x]
  BY <1>5, <1>6, <1>7
<1>9. ASSUME NEW k \in 1 .. Len(feed'[r])
      PROVE  \/ k \in 1 .. Len(feed[r]) /\ feed'[r][k] = feed[r][k]
             \/ \E j \in 2 .. n : j = k - Len(feed[r]) + 1 /\ feed'[r][k] = line[r][j]
  <2>1. CASE k \in 1 .. Len(feed[r])
    BY <1>7, <1>8, <2>1
  <2>2. CASE k \notin 1 .. Len(feed[r])
    <3>1. k \in Len(feed[r]) + 1 .. Len(feed[r]) + n - 1
      BY <1>1, <1>5, <1>7, <1>8, <2>2
    <3>2. k - Len(feed[r]) \in 1 .. n - 1 /\ k - Len(feed[r]) + 1 \in 2 .. n
      BY <1>1, <1>5, <3>1
    <3>3. feed'[r][k] = line[r][k - Len(feed[r]) + 1]
      BY <1>4, <1>7, <1>8, <3>1, <3>2
    <3> QED
      BY <3>2, <3>3
  <2> QED
    BY <2>1, <2>2
<1>10. /\ \A k \in 1 .. Len(line[r]) : Clean(line[r][k])
       /\ \A j, k \in 1 .. Len(line[r]) : j <= k => Later(r, line[r][j], line[r][k])
       /\ \A k \in 1 .. Len(feed[r]) : Clean(feed[r][k]) /\ Later(r, feed[r][k], line[r][1])
       /\ \A j, k \in 1 .. Len(feed[r]) : j <= k => Later(r, feed[r][j], feed[r][k])
       /\ 2 .. n \subseteq 1 .. Len(line[r]) /\ 1 \in 1 .. Len(line[r]) /\ n \in 2 .. n
  BY <1>1 DEF Calm, Feeds, Kept
<1>11. \A k \in 1 .. Len(feed[r]), j \in 2 .. n : Later(r, feed[r][k], line[r][j])
  <2> SUFFICES ASSUME NEW k \in 1 .. Len(feed[r]), NEW j \in 2 .. n
               PROVE  Later(r, feed[r][k], line[r][j])
    OBVIOUS
  <2>1. Later(r, feed[r][k], line[r][1]) /\ Later(r, line[r][1], line[r][j])
    BY <1>10
  <2> QED
    BY <2>1, LaterTrans
<1>12. Kept(r)' = line[r][n] /\ \A x \in Ranges : Later(x, Kept(x), Kept(x)')
  BY DropsCalm
<1>13. ASSUME NEW k \in 1 .. Len(feed'[r])
       PROVE  Clean(feed'[r][k]) /\ Later(r, feed'[r][k], Kept(r)')
  <2>1. CASE k \in 1 .. Len(feed[r]) /\ feed'[r][k] = feed[r][k]
    BY <1>10, <1>11, <1>12, <2>1
  <2>2. ASSUME NEW j \in 2 .. n, feed'[r][k] = line[r][j]
        PROVE  Clean(feed'[r][k]) /\ Later(r, feed'[r][k], Kept(r)')
    <3>1. j <= n
      BY <1>1
    <3> QED
      BY <1>10, <1>12, <2>2, <3>1
  <2> QED
    BY <1>9, <2>1, <2>2
<1>14. ASSUME NEW i \in 1 .. Len(feed'[r]), NEW k \in 1 .. Len(feed'[r]), i <= k
       PROVE  Later(r, feed'[r][i], feed'[r][k])
  <2>1. CASE k \in 1 .. Len(feed[r]) /\ feed'[r][k] = feed[r][k]
    <3>1. i \in 1 .. Len(feed[r]) /\ feed'[r][i] = feed[r][i]
      BY <1>5, <1>7, <1>8, <1>14, <2>1
    <3> QED
      BY <1>10, <1>14, <2>1, <3>1
  <2>2. ASSUME NEW j \in 2 .. n, j = k - Len(feed[r]) + 1, feed'[r][k] = line[r][j]
        PROVE  Later(r, feed'[r][i], feed'[r][k])
    <3>1. CASE i \in 1 .. Len(feed[r]) /\ feed'[r][i] = feed[r][i]
      BY <1>11, <2>2, <3>1
    <3>2. ASSUME NEW h \in 2 .. n, h = i - Len(feed[r]) + 1, feed'[r][i] = line[r][h]
          PROVE  Later(r, feed'[r][i], feed'[r][k])
      <4>1. h <= j
        BY <1>5, <1>14, <2>2, <3>2
      <4> QED
        BY <1>10, <2>2, <3>2, <4>1
    <3> QED
      BY <1>9, <3>1, <3>2
  <2> QED
    BY <1>9, <2>1, <2>2
<1>15. Len(feed'[r]) >= 1
  BY <1>1, <1>5, <1>7, <1>8
<1>16. ASSUME NEW x \in Ranges, x # r
       PROVE  /\ Len(feed'[x]) >= 1
              /\ \A k \in 1 .. Len(feed'[x]) : Clean(feed'[x][k]) /\ Later(x, feed'[x][k], Kept(x)')
              /\ \A j, k \in 1 .. Len(feed'[x]) : j <= k => Later(x, feed'[x][j], feed'[x][k])
              /\ Copy(x)' = Copy(x)
  <2>1. feed'[x] = feed[x]
    BY <1>8, <1>16
  <2>2. \A k \in 1 .. Len(feed[x]) : Later(x, feed[x][k], Kept(x)')
    BY <1>12, LaterTrans DEF Feeds
  <2> QED
    BY <2>1, <2>2 DEF Feeds, Copy
<1>17. Feeds'
  BY <1>8, <1>13, <1>14, <1>15, <1>16 DEF Feeds
<1>18. Copy(r)' = Copy(r)
  <2>1. Copy(r)' = feed'[r][1] /\ Copy(r) = feed[r][1]
    <3>1. PICK f \in Seq(Entries) : f = feed'[r]
      BY <1>8
    <3>2. Head(f) = f[1]
      OBVIOUS
    <3> QED
      BY <3>1, <3>2, CopyFacts DEF Copy
  <2> QED
    BY <1>5, <1>7, <1>8, <2>1
<1> QED
  BY <1>16, <1>17, <1>18

LEMMA CopyAppliesFeeds ==
    ASSUME Feeds, NEW r \in Ranges, CopyApplies(r)
    PROVE  /\ Feeds'
           /\ \A x \in Ranges : Later(x, Copy(x), Copy(x)')
<1>1. /\ feed \in [Ranges -> Seq(Entries)] /\ feed[r] \in Seq(Entries) /\ Len(feed[r]) \in Nat
      /\ Len(feed[r]) > 1 /\ feed' = [feed EXCEPT ![r] = Tail(feed[r])] /\ line' = line
  BY CopyFacts DEF Feeds, CopyApplies, vars
<1>2. /\ Tail(feed[r]) \in Seq(Entries) /\ Len(Tail(feed[r])) = Len(feed[r]) - 1
      /\ \A k \in 1 .. Len(feed[r]) - 1 : Tail(feed[r])[k] = feed[r][k + 1]
  BY <1>1
<1>3. /\ feed'[r] = Tail(feed[r]) /\ feed' \in [Ranges -> Seq(Entries)]
      /\ \A x \in Ranges : x # r => feed'[x] = feed[x]
  BY <1>1, <1>2
<1>4. /\ \A k \in 1 .. Len(feed[r]) : Clean(feed[r][k]) /\ Later(r, feed[r][k], Kept(r))
      /\ \A j, k \in 1 .. Len(feed[r]) : j <= k => Later(r, feed[r][j], feed[r][k])
  BY DEF Feeds
<1>5. \A x \in Ranges : Kept(x)' = Kept(x)
  BY <1>1 DEF Kept
<1>6. \A k \in 1 .. Len(feed'[r]) : k + 1 \in 1 .. Len(feed[r]) /\ feed'[r][k] = feed[r][k + 1]
  BY <1>1, <1>2, <1>3
<1>7. \A k \in 1 .. Len(feed'[r]) : Clean(feed'[r][k]) /\ Later(r, feed'[r][k], Kept(r)')
  BY <1>4, <1>5, <1>6
<1>8. ASSUME NEW j \in 1 .. Len(feed'[r]), NEW k \in 1 .. Len(feed'[r]), j <= k
      PROVE  Later(r, feed'[r][j], feed'[r][k])
  <2>1. j + 1 <= k + 1
    BY <1>8
  <2> QED
    BY <1>4, <1>6, <2>1
<1>9. ASSUME NEW x \in Ranges, x # r
      PROVE  /\ Len(feed'[x]) >= 1
             /\ \A k \in 1 .. Len(feed'[x]) : Clean(feed'[x][k]) /\ Later(x, feed'[x][k], Kept(x)')
             /\ \A j, k \in 1 .. Len(feed'[x]) : j <= k => Later(x, feed'[x][j], feed'[x][k])
             /\ Later(x, Copy(x), Copy(x)')
  <2>1. feed'[x] = feed[x]
    BY <1>3, <1>9
  <2> QED
    BY <1>5, <2>1 DEF Feeds, Copy, Later, Keeps
<1>10. Len(feed'[r]) >= 1
  BY <1>1, <1>2, <1>3
<1>11. Feeds'
  BY <1>3, <1>7, <1>8, <1>9, <1>10 DEF Feeds
<1>12. Later(r, Copy(r), Copy(r)')
  <2>1. Copy(r) = feed[r][1]
    BY CopyFacts
  <2>2. Copy(r)' = feed'[r][1]
    <3>1. PICK f \in Seq(Entries) : f = feed'[r]
      BY <1>3
    <3>2. Head(f) = f[1]
      OBVIOUS
    <3> QED
      BY <3>1, <3>2 DEF Copy
  <2>3. 1 \in 1 .. Len(feed'[r]) /\ 1 \in 1 .. Len(feed[r]) /\ 2 \in 1 .. Len(feed[r])
    BY <1>1, <1>2, <1>3
  <2>4. Copy(r)' = feed[r][2]
    BY <1>6, <2>2, <2>3
  <2> QED
    BY <1>4, <2>1, <2>3, <2>4
<1> QED
  BY <1>9, <1>11, <1>12

---------------------------------------------------------------------------
(* The reader.                                                             *)

\* A snapshot stays behind the copies, and an intent once resolved stays so.
LEMMA SnapsStay ==
    ASSUME Feeds, Feeds', Snaps, UNCHANGED snap, \A x \in Ranges : Later(x, Copy(x), Copy(x)')
    PROVE  Snaps' /\ (StillStanding' => StillStanding)
<1>1. Snaps'
  BY LaterTrans DEF Snaps
<1>2. ASSUME StillStanding'
      PROVE  StillStanding
  <2>1. snap # None /\ \A r \in Ranges : snap[r].intent => Copy(r)'.intent
    BY <1>2 DEF StillStanding
  <2>2. ASSUME NEW r \in Ranges, snap[r].intent
        PROVE  Copy(r).intent
    <3>1. snap[r] \in Entries /\ Sound(snap[r]) /\ Keeps(snap[r], Copy(r))
      BY <2>1 DEF Snaps, Clean, Later
    <3>2. Copy(r) \in Entries /\ Sound(Copy(r)) /\ Keeps(Copy(r), Copy(r)')
      BY CopyFacts DEF Clean, Later
    <3>3. Sound(Copy(r))'
      <4>1. Copy(r)' = feed'[r][1] /\ 1 \in 1 .. Len(feed'[r])
        <5>1. PICK f \in Seq(Entries) : f = feed'[r]
          BY DEF Feeds
        <5>2. Head(f) = f[1] /\ Len(f) \in Nat
          OBVIOUS
        <5>3. Len(f) >= 1
          BY <5>1 DEF Feeds
        <5> QED
          BY <5>1, <5>2, <5>3 DEF Copy
      <4> QED
        BY <4>1 DEF Feeds, Clean
    <3>4. Copy(r).landed /\ Copy(r)'.intent
      BY <2>1, <2>2, <3>1 DEF Sound, Keeps
    <3>5. Copy(r)'.fate = None
      BY <3>3, <3>4 DEF Sound
    <3> QED
      BY <3>2, <3>4, <3>5 DEF Sound, Keeps
  <2> QED
    BY <2>1, <2>2 DEF StillStanding
<1> QED
  BY <1>1, <1>2

\* The reader's knowledge lasts while others go on.
LEMMA SeeingStays ==
    ASSUME Inv, Seeing, UNCHANGED readerVars, StillStanding' => StillStanding,
           merged' = merged, told = "committed" => told' = "committed",
           \A x \in Ranges : Later(x, Kept(x), Kept(x)')
    PROVE  Seeing'
<1>1. UNCHANGED <<snap, sees, saw, after, unheard>>
  BY DEF readerVars
<1>2. (Won => Won') /\ (Fallen(Kept(Coord)) => Fallen(Kept(Coord))')
  BY WonLasts
<1>3. HoldsEveryPart' = HoldsEveryPart
  BY <1>1 DEF HoldsEveryPart
<1>4. \A r \in Ranges : Shows(r)' = Shows(r)
  BY <1>1 DEF Shows
<1> QED
  BY <1>1, <1>2, <1>3, <1>4 DEF Seeing

LEMMA BeginReadInv ==
    ASSUME ReadInv, BeginRead
    PROVE  Feeds' /\ Snaps' /\ Seeing'
<1>1. /\ snap = None /\ snap' = [r \in Ranges |-> Copy(r)] /\ after' = told
      /\ UNCHANGED <<line, told, merged, feed, sees, saw, unheard>>
  BY DEF BeginRead, vars, driverVars
<1>2. /\ Inv /\ Feeds /\ Seeing /\ sees = None /\ \A r \in Ranges : saw[r] = None
  BY <1>1 DEF ReadInv, Seeing
<1>3. \A r \in Ranges : Kept(r)' = Kept(r) /\ Copy(r)' = Copy(r)
  BY <1>1 DEF Kept, Copy
<1>4. Feeds'
  BY <1>1, <1>2, <1>3 DEF Feeds
<1>5. Snaps'
  <2>1. \A r \in Ranges : Copy(r) \in Entries /\ Clean(Copy(r)) /\ Later(r, Copy(r), Copy(r))
    BY <1>2, CopyFacts DEF Later, Keeps
  <2> QED
    BY <1>1, <1>3, <2>1 DEF Snaps
<1>6. sees' = None /\ sees # TRUE /\ sees # FALSE
  BY <1>1, <1>2, ReadsAssumption
<1>7. \A r \in Ranges : saw'[r] = None /\ saw'[r] # "T"
  BY <1>1, <1>2, ReadsAssumption
<1>8. Seeing'
  BY <1>1, <1>2, <1>6, <1>7 DEF Seeing
<1> QED
  BY <1>4, <1>5, <1>8

\* What T's version here, its record here or its leader says of T.
LEMMA FindsWon ==
    ASSUME ReadInv, snap # None, NEW r \in Ranges, NEW answered \in BOOLEAN,
           IntentStored(r) \/ VersionStored(r), Finds(r, answered) = TRUE
    PROVE  Won /\ HoldsEveryPart
<1>1. /\ Inv /\ Feeds /\ Snaps /\ Seeing /\ Coord \in Ranges /\ merged \in BOOLEAN
  BY AcrossAssumption DEF ReadInv, Inv, Typed
<1>2. CASE sees # None
  BY <1>1, <1>2 DEF Finds, Seeing
<1>3. CASE sees = None /\ IntentStored(r)
  <2>1. SeesIntent(answered)
    BY <1>3 DEF Finds
  <2>2. CASE Decided(Copy(Coord).rec) /\ Copy(Coord).rec.is = "committed"
    <3>1. Committed(Copy(Coord))
      BY <2>2 DEF Decided, Committed, Is
    <3>2. Committed(Kept(Coord))
      BY <1>1, <3>1, CopyFacts DEF Later, Keeps
    <3> QED
      BY <1>1, <2>1, <3>2, CommittedWins DEF SeesIntent
  <2>3. CASE LeaderKnowsCommitted
    <3>1. CASE Kept(Coord).rec # None /\ Kept(Coord).rec.is = "committed"
      BY <1>1, <2>1, <3>1, CommittedWins DEF SeesIntent, Committed, Is
    <3>2. CASE /\ Kept(Coord).rec # None /\ Kept(Coord).rec.is = "staging"
               /\ \A x \in Ranges : Kept(x).landed
      <4>1. 1 \in 1 .. Len(L) /\ Kept(Coord) = L[1]
        BY <1>1, Entry DEF Inv, L, Kept
      <4>2. merged
        BY <1>1, <3>2, <4>1 DEF Inv, Records, Record, Is
      <4> QED
        BY <2>1, <3>2, <4>2 DEF SeesIntent, Won, Everywhere
    <3> QED
      BY <2>3, <3>1, <3>2 DEF LeaderKnowsCommitted
  <2> QED
    BY <2>1, <2>2, <2>3 DEF SeesIntent
<1>4. CASE sees = None /\ ~IntentStored(r)
  <2>1. HoldsEveryPart /\ snap[r].value = "T"
    BY <1>4 DEF Finds, VersionStored
  <2>2. snap[r].fate = "kept" /\ Keeps(snap[r], Kept(r))
    BY <1>1, <2>1, SnapFacts DEF Clean, Sound, Later
  <2>3. Kept(r).fate = "kept"
    BY <2>2, NoneIsApart DEF Keeps
  <2>4. Won
    <3>1. 1 \in 1 .. Len(line[r]) /\ Kept(r) = line[r][1]
      BY <1>1, Entry DEF Inv, Kept
    <3> QED
      BY <1>1, <2>3, <3>1 DEF Inv, Fates
  <2> QED
    BY <2>1, <2>4
<1> QED
  BY <1>2, <1>3, <1>4

\* A reader refused T after its caller was told it committed: the record is gone.
LEMMA RefusedIsFallen ==
    ASSUME ReadInv, snap # None, NEW r \in Ranges, IntentStored(r), HoldsEveryPart,
           ~SeesIntent(TRUE), told = "committed"
    PROVE  Fallen(Kept(Coord))
<1>1. /\ Inv /\ Feeds /\ Snaps /\ Coord \in Ranges /\ merged \in BOOLEAN
  BY AcrossAssumption DEF ReadInv, Inv, Typed
<1>2. CASE Decided(Copy(Coord).rec)
  <2>1. Copy(Coord).rec # None /\ Copy(Coord).rec.is = "aborted"
    BY <1>2 DEF SeesIntent, Decided
  <2>2. Copy(Coord).landed
    BY <1>1, SnapFacts DEF HoldsEveryPart, Later, Keeps
  <2> QED
    BY <1>1, <2>1, <2>2, CopyFacts DEF Fallen, Unset, Is, Later
<1>3. CASE ~Decided(Copy(Coord).rec)
  <2>1. ~LeaderKnowsCommitted
    BY <1>3 DEF SeesIntent
  <2>2. Won
    BY <1>1 DEF Inv, Drives
  <2>3. Everywhere
    BY <1>1, <2>2, WonIsWhole
  <2>4. Kept(Coord).landed /\ \A x \in Ranges : Kept(x).landed
    BY <1>1, <2>3 DEF Everywhere
  <2>5. CASE Kept(Coord).rec = None
    BY <2>4, <2>5 DEF Fallen, Unset
  <2>6. CASE Kept(Coord).rec # None
    <3>1. Kept(Coord).rec.is \in Standings
      BY <1>1, <2>6, TipFacts DEF Entries, Recs
    <3>2. Kept(Coord).rec.is # "committed" /\ Kept(Coord).rec.is # "staging"
      BY <2>1, <2>4, <2>6 DEF LeaderKnowsCommitted
    <3>3. 1 \in 1 .. Len(L) /\ Kept(Coord) = L[1]
      BY <1>1, Entry DEF Inv, L, Kept
    <3>4. Record(1)
      BY <1>1, <3>3 DEF Inv, Records
    <3>5. Kept(Coord).rec.is # "pending"
      <4>1. CASE merged
        BY <2>6, <3>3, <3>4, <4>1 DEF Record, Is
      <4>2. CASE ~merged
        <5>1. Kept(Coord).fate = "kept"
          BY <2>2, <3>2, <4>2 DEF Won, Committed, Is
        <5> QED
          BY <2>6, <3>2, <3>3, <3>4, <5>1 DEF Record, Is, Unset
      <4> QED
        BY <1>1, <4>1, <4>2
    <3> QED
      BY <2>4, <2>6, <3>1, <3>2, <3>5 DEF Fallen, Unset, Is, Standings
  <2> QED
    BY <2>5, <2>6
<1> QED
  BY <1>2, <1>3

LEMMA ReadKeeps ==
    ASSUME ReadInv, NEW r \in Ranges, Read(r)
    PROVE  Seeing'
<1>1. /\ Inv /\ Feeds /\ Snaps /\ Seeing /\ snap # None /\ saw[r] = None
      /\ UNCHANGED <<line, told, merged, feed, snap, after>>
  BY DEF ReadInv, Read, vars, driverVars
<1>2. PICK answered \in BOOLEAN :
        LET now == Finds(r, answered)
            asks == sees = None /\ IntentStored(r) /\ ~Decided(Copy(Coord).rec)
        IN  /\ sees' = IF IntentStored(r) \/ VersionStored(r) THEN now ELSE sees
            /\ saw' = [saw EXCEPT ![r] = CASE IntentStored(r) /\ now -> "T"
                                           [] VersionStored(r) /\ ~now -> "read"
                                           [] OTHER -> snap[r].value]
            /\ unheard' = (unheard \/ (asks /\ ~answered))
  BY DEF Read
<1>3. /\ sees \in BOOLEAN \cup {None} /\ unheard \in BOOLEAN
      /\ saw \in [Ranges -> {"read", "other", "T", None}]
  BY <1>1 DEF Seeing
<1>4. Finds(r, answered) \in BOOLEAN
  <2>1. SeesIntent(answered) \in BOOLEAN /\ HoldsEveryPart \in BOOLEAN
    BY DEF SeesIntent, HoldsEveryPart
  <2> QED
    BY <1>3, <2>1 DEF Finds
<1>5. PICK now \in BOOLEAN : now = Finds(r, answered)
  BY <1>4
<1>6. PICK shows \in BOOLEAN : shows = (IntentStored(r) \/ VersionStored(r))
  OBVIOUS
<1>7. sees' = IF shows THEN now ELSE sees
  BY <1>2, <1>5, <1>6
<1>8. /\ saw'[r] = CASE IntentStored(r) /\ now -> "T"
                     [] VersionStored(r) /\ ~now -> "read"
                     [] OTHER -> snap[r].value
      /\ \A x \in Ranges : x # r => saw'[x] = saw[x]
  BY <1>2, <1>3, <1>5
<1>9. snap[r] \in Entries /\ Sound(snap[r]) /\ snap[r].value \in {"read", "other", "T"}
  BY <1>1, SnapFacts DEF Clean, Entries
<1>10. saw' \in [Ranges -> {"read", "other", "T", None}]
  <2>1. saw'[r] \in {"read", "other", "T", None}
    BY <1>8, <1>9
  <2> QED
    BY <1>2, <1>3, <1>5, <1>8, <2>1
<1>11. unheard' \in BOOLEAN /\ (~unheard' => ~unheard)
  BY <1>2, <1>3
<1>12. /\ Won' = Won /\ HoldsEveryPart' = HoldsEveryPart /\ Kept(Coord)' = Kept(Coord)
       /\ StillStanding' = StillStanding /\ \A x \in Ranges : Shows(x)' = Shows(x)
  BY <1>1 DEF Won, Everywhere, Kept, HoldsEveryPart, StillStanding, Copy, Shows
<1>13. None # TRUE /\ None # FALSE /\ None # "T" /\ None # "read"
  BY ReadsAssumption
<1>14. sees # None => now = sees /\ sees' = sees
  BY <1>5, <1>7 DEF Finds
<1>15. sees' \in BOOLEAN \cup {None}
  BY <1>3, <1>7
<1>16. sees' = TRUE => Won /\ HoldsEveryPart
  <2>1. CASE shows /\ now = TRUE
    BY <1>1, <1>5, <1>6, <2>1, FindsWon
  <2>2. CASE ~shows
    BY <1>1, <1>7, <2>2 DEF Seeing
  <2> QED
    BY <1>7, <2>1, <2>2
<1>17. saw'[r] = "T" => shows /\ now
  BY <1>6, <1>8 DEF VersionStored
<1>18. (\E x \in Ranges : saw'[x] = "T") => sees' = TRUE
  <2> SUFFICES ASSUME NEW x \in Ranges, saw'[x] = "T" PROVE sees' = TRUE
    OBVIOUS
  <2>1. CASE x = r
    BY <1>7, <1>17, <2>1
  <2>2. CASE x # r
    <3>1. sees = TRUE
      BY <1>1, <1>8, <2>2 DEF Seeing
    <3> QED
      BY <1>13, <1>14, <3>1
  <2> QED
    BY <2>1, <2>2
<1>19. ASSUME sees' = FALSE, after = "committed", HoldsEveryPart, ~unheard'
       PROVE  Fallen(Kept(Coord))
  <2>1. CASE sees # None
    BY <1>1, <1>11, <1>14, <1>19, <2>1 DEF Seeing
  <2>2. CASE sees = None
    <3>1. shows /\ ~now
      BY <1>7, <1>13, <1>19, <2>2
    <3>2. IntentStored(r) /\ ~SeesIntent(answered)
      BY <1>5, <1>19, <2>2, <3>1 DEF Finds
    <3>3. ~SeesIntent(TRUE)
      <4>1. CASE answered
        BY <3>2, <4>1 DEF SeesIntent
      <4>2. CASE ~answered
        <5>1. Decided(Copy(Coord).rec)
          BY <1>2, <1>19, <2>2, <3>2, <4>2
        <5> QED
          BY <3>2, <5>1 DEF SeesIntent
      <4> QED
        BY <4>1, <4>2
    <3>4. told = "committed"
      BY <1>1, <1>19 DEF Seeing
    <3> QED
      BY <1>1, <1>19, <3>2, <3>3, <3>4, RefusedIsFallen
  <2> QED
    BY <2>1, <2>2
<1>20. ASSUME StillStanding, NEW x \in Ranges, saw'[x] # None, Shows(x)
       PROVE  sees' # None /\ saw'[x] = IF sees' THEN "T" ELSE "read"
  <2>1. CASE x # r
    <3>1. sees # None /\ saw[x] = IF sees THEN "T" ELSE "read"
      BY <1>1, <1>8, <1>20, <2>1 DEF Seeing
    <3> QED
      BY <1>8, <1>14, <2>1, <3>1
  <2>2. CASE x = r
    <3>1. snap[r].intent => IntentStored(r) /\ snap[r].value = "read"
      BY <1>9, <1>20 DEF StillStanding, IntentStored, Sound
    <3>2. shows
      BY <1>6, <1>20, <2>2, <3>1 DEF Shows, VersionStored
    <3>3. sees' = now /\ sees' # None
      BY <1>7, <1>13, <3>2
    <3>4. CASE now
      <4>1. saw'[r] = "T"
        BY <1>6, <1>8, <3>2, <3>4 DEF VersionStored
      <4> QED
        BY <2>2, <3>3, <3>4, <4>1
    <3>5. CASE ~now
      <4>1. saw'[r] = "read"
        <5>1. CASE VersionStored(r)
          BY <1>8, <3>5, <5>1
        <5>2. CASE ~VersionStored(r)
          <6>1. IntentStored(r) /\ snap[r].value = "read"
            BY <1>6, <1>9, <3>2, <5>2 DEF IntentStored, Sound
          <6> QED
            BY <1>8, <3>5, <5>2, <6>1
        <5> QED
          BY <5>1, <5>2
      <4> QED
        BY <2>2, <3>3, <3>5, <4>1
    <3> QED
      BY <3>4, <3>5
  <2> QED
    BY <2>1, <2>2
<1>21. after' = "committed" => told' = "committed"
  BY <1>1 DEF Seeing
<1>22. snap' # None
  BY <1>1
<1> QED
  BY <1>1, <1>10, <1>11, <1>12, <1>15, <1>16, <1>18, <1>19, <1>20, <1>21, <1>22 DEF Seeing

---------------------------------------------------------------------------
(* The specification.                                                      *)

LEMMA InitReadInv ==
    ASSUME ReadInit
    PROVE  ReadInv
<1>1. /\ Inv /\ Init /\ feed = [r \in Ranges |-> <<Untouched>>]
      /\ snap = None /\ sees = None /\ saw = [r \in Ranges |-> None]
      /\ after = None /\ unheard = FALSE
  BY InitInv DEF ReadInit
<1>2. PICK u \in Entries : u = Untouched
  BY DEF Untouched, Entries
<1>3. /\ <<u>> \in Seq(Entries) /\ Len(<<u>>) = 1 /\ <<u>>[1] = u
  OBVIOUS
<1>4. /\ \A r \in Ranges : line[r] = <<u>> /\ feed[r] = <<u>> /\ Kept(r) = u
      /\ feed \in [Ranges -> Seq(Entries)]
  BY <1>1, <1>2, <1>3 DEF Init, Kept
<1>5. Clean(u) /\ \A r \in Ranges : Later(r, u, u)
  <2>1. u.value = "read" /\ u.fate = None /\ u.intent = FALSE /\ u.landed = FALSE
    BY <1>2 DEF Untouched
  <2>2. Sound(u)
    BY <2>1, NoneIsApart DEF Sound
  <2> QED
    BY <2>1, <2>2 DEF Clean, Later, Keeps
<1>6. Calm /\ Feeds
  BY <1>3, <1>4, <1>5 DEF Calm, Feeds
<1>7. Snaps
  BY <1>1 DEF Snaps
<1>8. Seeing
  <2>1. sees # TRUE /\ sees # FALSE /\ after # "committed" /\ \A r \in Ranges : saw[r] = None /\ saw[r] # "T"
    BY <1>1, ReadsAssumption, NoneIsApart
  <2> QED
    BY <1>1, <2>1 DEF Seeing
<1> QED
  BY <1>1, <1>6, <1>7, <1>8 DEF ReadInv

LEMMA StutterReads ==
    ASSUME ReadInv, UNCHANGED <<vars, feed, readerVars>>
    PROVE  ReadInv'
<1>1. /\ UNCHANGED vars /\ line' = line /\ merged' = merged /\ told' = told
      /\ UNCHANGED <<feed, snap, sees, saw, after, unheard>> /\ UNCHANGED readerVars
  BY DEF vars, driverVars, readerVars
<1>2. Inv'
  BY <1>1, StutterInv DEF ReadInv
<1>3. Calm' /\ \A x \in Ranges : Kept(x)' = Kept(x) /\ Copy(x)' = Copy(x)
  BY <1>1 DEF ReadInv, Calm, Kept, Copy
<1>4. \A x \in Ranges : Later(x, Kept(x), Kept(x)') /\ Later(x, Copy(x), Copy(x)')
  BY <1>3 DEF Later, Keeps
<1>5. Feeds'
  BY <1>1, <1>4, FeedsStay DEF ReadInv
<1>6. Snaps' /\ (StillStanding' => StillStanding)
  BY <1>1, <1>4, <1>5, SnapsStay DEF ReadInv
<1>7. Seeing'
  BY <1>1, <1>4, <1>6, SeeingStays DEF ReadInv
<1> QED
  BY <1>2, <1>3, <1>5, <1>6, <1>7 DEF ReadInv

LEMMA NextReadInv ==
    ASSUME ReadInv, Reading, ReadNext, Inv'
    PROVE  ReadInv'
<1>1. Inv /\ Calm /\ Feeds /\ Snaps /\ Seeing
  BY DEF ReadInv
<1>2. CASE (Driver \/ Leader \/ House \/ Lapse) /\ UNCHANGED <<feed, readerVars>>
  <2>1. Inv'
    OBVIOUS
  <2>2. Grows
    BY <1>1, <1>2, LeaderGrows, HouseGrows, DriverGrows
  <2>3. Calm' /\ \A x \in Ranges : Kept(x)' = Kept(x)
    BY <1>1, <2>1, <2>2, GrowsCalm
  <2>4. \A x \in Ranges : Later(x, Kept(x), Kept(x)') /\ Later(x, Copy(x), Copy(x)')
    BY <1>2, <2>3 DEF Later, Keeps, Copy
  <2>5. Feeds'
    BY <1>1, <1>2, <2>4, FeedsStay
  <2>6. Snaps' /\ (StillStanding' => StillStanding)
    BY <1>1, <1>2, <2>4, <2>5, SnapsStay DEF readerVars
  <2>7. merged' = merged /\ (told = "committed" => told' = "committed")
    BY <1>1, <1>2, ToldLasts
  <2>8. Seeing'
    BY <1>1, <1>2, <2>4, <2>6, <2>7, SeeingStays
  <2> QED
    BY <2>1, <2>3, <2>5, <2>6, <2>8 DEF ReadInv
<1>3. ASSUME NEW r \in Ranges, Collect(r)
      PROVE  ReadInv'
  <2>1. Replicate(r) /\ UNCHANGED readerVars /\ UNCHANGED <<merged, told>>
    BY <1>3 DEF Collect, Replicate
  <2>2. Inv'
    BY <1>1, <2>1, ReplicateInv
  <2>3. PICK n \in Nat : Drops(r, n)
    BY <1>1, <2>1, ReplicateDrops
  <2>4. Calm' /\ \A x \in Ranges : Later(x, Kept(x), Kept(x)')
    BY <1>1, <2>3, DropsCalm
  <2>5. Feeds' /\ \A x \in Ranges : Copy(x)' = Copy(x)
    BY <1>1, <1>3, <2>3, CollectFeeds
  <2>6. \A x \in Ranges : Later(x, Copy(x), Copy(x)')
    BY <2>5 DEF Later, Keeps
  <2>7. Snaps' /\ (StillStanding' => StillStanding)
    BY <1>1, <2>1, <2>5, <2>6, SnapsStay DEF readerVars
  <2>8. Seeing'
    BY <1>1, <2>1, <2>4, <2>7, SeeingStays
  <2> QED
    BY <2>2, <2>4, <2>5, <2>7, <2>8 DEF ReadInv
<1>4. ASSUME NEW r \in Ranges, CopyApplies(r)
      PROVE  ReadInv'
  <2>1. /\ UNCHANGED vars /\ UNCHANGED readerVars /\ UNCHANGED <<line, merged, told>>
    BY <1>4 DEF CopyApplies, vars, driverVars
  <2>2. Inv'
    BY <1>1, <2>1, StutterInv
  <2>3. Calm' /\ \A x \in Ranges : Kept(x)' = Kept(x)
    BY <1>1, <2>1 DEF Calm, Kept
  <2>4. \A x \in Ranges : Later(x, Kept(x), Kept(x)')
    BY <2>3 DEF Later, Keeps
  <2>5. Feeds' /\ \A x \in Ranges : Later(x, Copy(x), Copy(x)')
    BY <1>1, <1>4, CopyAppliesFeeds
  <2>6. Snaps' /\ (StillStanding' => StillStanding)
    BY <1>1, <2>1, <2>5, SnapsStay DEF readerVars
  <2>7. Seeing'
    BY <1>1, <2>1, <2>4, <2>6, SeeingStays
  <2> QED
    BY <2>2, <2>3, <2>5, <2>6, <2>7 DEF ReadInv
<1>5. ASSUME NEW r \in Ranges, Read(r)
      PROVE  ReadInv'
  <2>1. /\ UNCHANGED vars /\ UNCHANGED <<line, feed, snap>>
    BY <1>5 DEF Read, vars
  <2>2. Inv'
    BY <1>1, <2>1, StutterInv
  <2>3. Calm' /\ Feeds' /\ Snaps'
    BY <1>1, <2>1 DEF Calm, Feeds, Snaps, Kept, Copy
  <2> QED
    BY <1>5, <2>2, <2>3, ReadKeeps DEF ReadInv
<1>6. CASE BeginRead
  <2>1. UNCHANGED vars /\ UNCHANGED line
    BY <1>6 DEF BeginRead, vars
  <2>2. Inv' /\ Calm'
    BY <1>1, <2>1, StutterInv DEF Calm
  <2> QED
    BY <1>6, <2>2, BeginReadInv DEF ReadInv
<1> QED
  BY <1>2, <1>3, <1>4, <1>5, <1>6 DEF ReadNext

\* Where T won and the snapshot holds every part, every range of it shows T.
LEMMA WholeShows ==
    ASSUME ReadInv, snap # None, Won, HoldsEveryPart, NEW r \in Ranges
    PROVE  Shows(r)
<1>1. Inv /\ Feeds /\ Snaps
  BY DEF ReadInv
<1>2. /\ snap[r] \in Entries /\ Sound(snap[r]) /\ snap[r].value # "other" /\ Keeps(snap[r], Kept(r))
  BY <1>1, SnapFacts DEF Clean, Later
<1>3. snap[r].intent \/ snap[r].fate # None
  BY <1>2 DEF HoldsEveryPart, Sound
<1>4. snap[r].fate # "dropped"
  <2>1. ASSUME snap[r].fate = "dropped"
        PROVE  FALSE
    <3>1. Kept(r).fate = "dropped"
      BY <1>2, <2>1, NoneIsApart DEF Keeps
    <3>2. 1 \in 1 .. Len(line[r]) /\ Kept(r) = line[r][1]
      BY <1>1, Entry DEF Inv, Kept
    <3>3. Doomed(1)
      BY <1>1, <3>1, <3>2 DEF Inv, Fates
    <3> QED
      BY <1>1, <3>3, WonIsNotDoomed
  <2> QED
    BY <2>1
<1>5. CASE snap[r].fate = "kept"
  BY <1>2, <1>5 DEF Shows, Sound, Entries
<1> QED
  BY <1>2, <1>3, <1>4, <1>5 DEF Shows, Entries

LEMMA InvReads ==
    ASSUME ReadInv
    PROVE  WholeWhileStanding /\ NeverDirty /\ AnsweredIsSeen
<1>1. Inv /\ Seeing /\ Coord \in Ranges
  BY AcrossAssumption DEF ReadInv
<1>2. (\E r \in Ranges : saw[r] = "T") => sees = TRUE /\ Won /\ HoldsEveryPart
  BY <1>1 DEF Seeing
<1>3. \A r \in Ranges : (saw[r] = "T" \/ saw[r] = "read") => saw[r] # None
  BY ReadsAssumption
<1>4. WholeWhileStanding
  <2> SUFFICES ASSUME StillStanding, NEW r \in Ranges, NEW s \in Ranges, saw[r] = "T", saw[s] = "read"
               PROVE  FALSE
    BY DEF WholeWhileStanding, Torn
  <2>1. sees = TRUE /\ Won /\ HoldsEveryPart /\ snap # None
    BY <1>2 DEF StillStanding
  <2>2. Shows(s)
    BY <2>1, WholeShows
  <2>3. saw[s] = IF sees THEN "T" ELSE "read"
    BY <1>1, <1>3, <2>2 DEF Seeing
  <2> QED
    BY <2>1, <2>3
<1>5. NeverDirty
  <2> SUFFICES ASSUME \E r \in Ranges : saw[r] = "T"
               PROVE  /\ told = "aborted" => looked
                      /\ \A r \in Ranges : Tip(r).fate # "dropped" /\ Kept(r).landed
    BY DEF NeverDirty
  <2>1. Won /\ ~Doomed(1) /\ Everywhere
    BY <1>1, <1>2, WonIsNotDoomed, WonIsWhole
  <2>2. \A r \in Ranges : Tip(r).fate = "dropped" => Doomed(1)
    BY <1>1, TipFacts
  <2>3. told = "aborted" /\ ~looked => Doomed(1)
    BY <1>1 DEF Inv, Drives
  <2> QED
    BY <2>1, <2>2, <2>3 DEF Everywhere
<1>6. AnsweredIsSeen
  <2> SUFFICES ASSUME StillStanding, after = "committed", HoldsEveryPart, ~unheard, RecordStands,
                      NEW r \in Ranges, saw[r] = "read"
               PROVE  FALSE
    BY DEF AnsweredIsSeen
  <2>1. Won /\ snap # None
    BY <1>1 DEF Seeing, Inv, Drives, StillStanding
  <2>2. Shows(r)
    BY <2>1, WholeShows
  <2>3. sees # None /\ saw[r] = (IF sees THEN "T" ELSE "read") /\ sees \in BOOLEAN
    BY <1>1, <1>3, <2>2 DEF Seeing
  <2>4. sees = FALSE
    BY <2>3
  <2>5. Fallen(Kept(Coord))
    BY <1>1, <2>4 DEF Seeing
  <2> QED
    BY <2>5 DEF Fallen, Unset, Is, RecordStands
<1> QED
  BY <1>4, <1>5, <1>6

---------------------------------------------------------------------------
(* Theorems.                                                               *)

\* The reader and the copies only watch: every behaviour of this system is one of
\* the commit's (Collect is Replicate, the rest of the reader's steps stutter).
THEOREM ReadersOnlyWatch == ReadSpec => Spec
<1>1. ReadInit => Init
  BY DEF ReadInit
<1>2. [ReadNext]_<<vars, feed, readerVars>> => [Next]_vars
  BY DEF ReadNext, Collect, CopyApplies, Read, BeginRead, Next, Around
<1> QED
  BY <1>1, <1>2, PTL DEF ReadSpec, Spec

\* What copies, snapshot and reader know of T stays behind what majorities hold of
\* it, and what the reader concluded stays so (visible.rs, decisions.rs), until a
\* settle overtakes T's begin.
THEOREM ReadersLag == ~Lingers => (ReadSpec => [](overtaken \/ ReadInv))
<1> SUFFICES ASSUME ~Lingers
             PROVE  ReadSpec => [](overtaken \/ ReadInv)
  OBVIOUS
<1> DEFINE E == overtaken \/ (Inv /\ Reading)
<1>1. ReadSpec => []E
  BY Evidence, ReadersOnlyWatch, PTL
<1>2. ReadInit => ReadInv
  BY InitReadInv
<1>3. E /\ E' /\ (overtaken \/ ReadInv) /\ [ReadNext]_<<vars, feed, readerVars>> => (overtaken \/ ReadInv)'
  <2> SUFFICES ASSUME E, E', overtaken \/ ReadInv, [ReadNext]_<<vars, feed, readerVars>>, ~overtaken'
               PROVE  ReadInv'
    OBVIOUS
  <2>1. ~overtaken
    <3>1. Next \/ UNCHANGED vars
      BY DEF ReadNext, Collect, CopyApplies, Read, BeginRead, Next, Around
    <3>2. UNCHANGED vars => overtaken' = overtaken
      BY DEF vars, houseVars, settleVars
    <3> QED
      BY <3>1, <3>2, OvertakenStays
  <2> QED
    BY <2>1, NextReadInv, StutterReads
<1> QED
  BY <1>1, <1>2, <1>3, PTL DEF ReadSpec

\* A reading transaction sees T whole or not at all for as long as no copy has
\* resolved an intent its snapshot holds, however far the copies lag (sees,
\* holds_every_part), unless a settle overtook T's begin.
THEOREM SeenWhole == ~Lingers => (ReadSpec => []WholeWhileStanding)
<1>1. overtaken \/ ReadInv => WholeWhileStanding
  BY InvReads DEF WholeWhileStanding
<1> QED
  BY <1>1, ReadersLag, PTL

\* What a reader was shown of T is never undone, unless a settle overtook T's begin:
\* no range drops it and its caller is not told that it aborted (LeadersDecide
\* answers on held parts only).
THEOREM NothingShownIsUndone == ~Lingers => (ReadSpec => []NeverDirty)
<1>1. overtaken \/ ReadInv => NeverDirty
  BY InvReads DEF NeverDirty
<1> QED
  BY <1>1, ReadersLag, PTL

\* A reader that begins after the caller was told, on copies that hold every part,
\* sees T until its record is forgotten (asked_decision), unless a settle overtook
\* T's begin.
THEOREM AnswersAreRead == ~Lingers => (ReadSpec => []AnsweredIsSeen)
<1>1. overtaken \/ ReadInv => AnsweredIsSeen
  BY InvReads DEF AnsweredIsSeen
<1> QED
  BY <1>1, ReadersLag, PTL
=============================================================================
