---------------------------- MODULE AcrossProofs ----------------------------
(***************************************************************************)
(* Proofs about Across, for every set of ranges, every choice of pruned    *)
(* and written ranges and any number of changes of leader.                 *)
(*                                                                         *)
(* Safe holds always: T commits only once a majority holds every part.     *)
(*                                                                         *)
(* Inv holds until a settle's abort, decided on an older read, replaces a  *)
(* staging record, provided no ask outlives the forgetting of T's record.  *)
(* The outcome is one because it is decided where it cannot be undone.  T  *)
(* has won once a majority holds every part (the merged way) or the record *)
(* says so (the other); it is doomed, from some place of Coord's line on,  *)
(* once nothing on its way can make it win.  Both last, each excludes the  *)
(* other, and every answer, ask and fate is evidence of one of them.       *)
(***************************************************************************)
EXTENDS Across, TLAPS

Typed ==
    /\ line \in [Ranges -> Seq(Entries)]
    /\ \A r \in Ranges : Len(line[r]) >= 1
    /\ trimmed \in [Ranges -> BOOLEAN]
    /\ net \subseteq [kind : Kinds, range : Ranges]
    /\ pc \in Places /\ merged \in BOOLEAN /\ known \subseteq Ranges /\ missed \subseteq Ranges
    /\ reply \in Replies \cup {None}
    /\ told \in {None, "committed", "aborted", "doubt"} /\ looked \in BOOLEAN
    /\ overdue \in BOOLEAN /\ verdict \in [Ranges -> Replies \cup {None}]
    /\ recovering \in BOOLEAN /\ gone \subseteq Ranges /\ mishaps \in Nat

---------------------------------------------------------------------------
(* What one state of a range says of T, and what a later one keeps of it.  *)

Is(e, standing) == e.rec # None /\ e.rec.is = standing
Committed(e) == Is(e, "committed") \/ e.fate = "kept"
Unset(e) == e.rec = None \/ Is(e, "aborted")

Sound(e) ==
    /\ e.intent => e.landed /\ e.fate = None /\ e.value = "read"
    /\ e.landed => (e.intent \/ e.fate # None)
    /\ e.fate # None => e.landed
    /\ e.value = "T" => e.fate = "kept"
    /\ e.fate = "kept" => e.value # "read"
    /\ ~(e.landed /\ e.barred)

Keeps(e, f) ==
    /\ e.landed => f.landed
    /\ e.barred => f.barred
    /\ e.fate # None => f.fate = e.fate
    /\ Committed(e) => Committed(f)

Lines ==
    \A r \in Ranges :
        /\ \A k \in 1 .. Len(line[r]) : Sound(line[r][k])
        /\ \A j, k \in 1 .. Len(line[r]) : j <= k => Keeps(line[r][j], line[r][k])

---------------------------------------------------------------------------
(* The two outcomes.                                                       *)

L == line[Coord]
Sent(kind, r) == Ask(kind, r) \in net

Everywhere == \A r \in Ranges : Kept(r).landed
Refused == \E r \in Ranges : Kept(r).barred
Resolved == \A r \in Ranges : Kept(r).fate = "kept"

\* A majority holds what makes T committed.
Won == IF merged THEN Everywhere ELSE Committed(Kept(Coord))

\* From place p of Coord's line on, nothing on its way can make T committed.
Doomed(p) ==
    /\ pc # "idle"
    /\ merged  => \/ Refused
                  \/ \A j \in p .. Len(L) :
                        ~L[j].landed /\ (Is(L[j], "aborted") \/ ~Sent("begin", Coord))
    /\ ~merged => /\ \A j \in p .. Len(L) : ~Committed(L[j])
                  /\ \/ missed # {}
                     \/ pc \in {"deciding", "done"} /\ ~Sent("commit", Coord)
                     \/ ~Sent("open", Coord) /\ \A j \in p .. Len(L) : Unset(L[j])

\* A part kept is evidence that T won, a part dropped that it is doomed.
Fates ==
    \A r \in Ranges : \A k \in 1 .. Len(line[r]) :
        /\ line[r][k].fate = "kept" => Won
        /\ line[r][k].fate = "dropped" => Doomed(1)

\* What place k of Coord's line says of T's record.
Record(k) ==
    /\ Committed(L[k]) =>
          /\ Everywhere
          /\ merged => overdue \/ told = "committed"
          /\ ~merged => pc \in {"deciding", "done"} /\ ~Sent("commit", Coord) /\ missed = {}
    /\ Is(L[k], "committed") => L[k].rec.of = Ranges
    /\ L[k].fate = "kept" => Is(L[k], "committed") \/ (Unset(L[k]) /\ Resolved)
    /\ merged => /\ ~Is(L[k], "pending")
                 /\ Is(L[k], "staging") => L[k].landed
                 /\ L[k].landed /\ Unset(L[k]) => Committed(L[k]) \/ Refused
    /\ ~merged => ~Is(L[k], "staging")
    /\ Sent("settle", Coord) => ~(L[k].fate = "kept" /\ Unset(L[k]))

Records == \A k \in 1 .. Len(L) : Record(k)

\* What an ask on its way is evidence of.
Asks ==
    /\ merged => /\ ~Sent("open", Coord) /\ ~Sent("commit", Coord)
                 /\ ~Sent("prepare", Coord) /\ ~Sent("keep", Coord)
    /\ ~merged => /\ ~Sent("begin", Coord) /\ ~Sent("conclude", Coord)
                  /\ ~Sent("settle", Coord) /\ ~Sent("lookup", Coord)
                  /\ \A r \in Ranges : ~Sent("bar", r)
    /\ pc = "idle" => net = {} /\ ~Tip(Coord).barred
    /\ (pc \in {"idle", "opening"} \/ Sent("open", Coord)) =>
          \A r \in Ranges : ~Tip(r).landed /\ ~Sent("prepare", r)
    /\ \A r \in Ranges : Sent("prepare", r) => ~Tip(r).landed
    /\ Sent("begin", Coord) => /\ ~Tip(Coord).landed /\ ~Tip(Coord).barred
                               /\ ~Sent("bar", Coord)
                               /\ pc \in {"preparing", "asking", "done"}
    /\ Sent("open", Coord) => pc \in {"opening", "done"}
    /\ Sent("commit", Coord) => Everywhere /\ missed = {} /\ pc \in {"deciding", "done"}
    /\ Sent("abort", Coord) => (merged => Refused) /\ (~merged => missed # {})
    /\ \A r \in Ranges : Sent("keep", r) => Won
    /\ Sent("conclude", Coord) => Won /\ told = "committed"
    /\ \A r \in Ranges : Sent("drop", r) => Doomed(1) \/ Resolved
    /\ Sent("lookup", Coord) => looked

\* What the driver and the caller know.
Drives ==
    /\ \A r \in known : Kept(r).landed
    /\ pc \in {"recovering", "barring", "asking"} => merged
    /\ pc \in {"recovering", "barring", "deciding"} => ~Sent("begin", Coord)
    /\ pc = "opening" => ~merged
    /\ pc = "deciding" /\ merged => Refused
    /\ told # None <=> pc = "done"
    /\ pc \in {"idle", "opening", "preparing"} => ~looked
    /\ told = "committed" => Won
    /\ told = "aborted" /\ ~looked => Doomed(1)

\* What the answer on its way to the driver is evidence of.
ReplyAt(p) ==
    /\ p \in 1 .. Len(line[reply.of])
    /\ \/ pc = "opening" /\ ~Sent("open", Coord)
       \/ /\ pc = "asking" /\ reply.of = Coord
          /\ reply.says = "staging" => ~Sent("begin", Coord)
          /\ reply.says = "aborted" => Doomed(p) \/ (looked /\ Resolved)
          /\ reply.says = "committed" => Committed(L[p])
       \/ /\ pc = "barring"
          /\ reply.says = "landed" => line[reply.of][p].landed
          /\ reply.says = "barred" => line[reply.of][p].barred
       \/ /\ pc = "deciding" /\ reply.of = Coord
          /\ ~merged /\ missed = {} =>
               /\ ~Sent("commit", Coord)
               /\ reply.says = "ok" => Committed(L[p])
               /\ reply.says = "aborted" => Doomed(1)

Replied == reply # None => \A p \in Nat : p = reply.at => ReplyAt(p)

\* What the answer on its way to range r's housekeeping is evidence of.
VerdictAt(r, p) ==
    /\ verdict[r].of = Coord /\ p \in 1 .. Len(L)
    /\ \/ verdict[r].says = "committed" /\ Committed(L[p])
       \/ verdict[r].says = "aborted" /\ Doomed(p)

Answered(r) == verdict[r] # None => \A p \in Nat : p = verdict[r].at => VerdictAt(r, p)
Verdicts == \A r \in Ranges : Answered(r)

Recovers == recovering => merged /\ overdue /\ Tip(Coord).landed

Gathers ==
    /\ gone # {} => Decided(Tip(Coord).rec)
    /\ Is(Tip(Coord), "committed") => \A r \in gone : Kept(r).fate = "kept"

Inv ==
    /\ Typed /\ Lines /\ Fates /\ Records /\ Asks
    /\ Drives /\ Replied /\ Verdicts /\ Recovers /\ Gathers

---------------------------------------------------------------------------
(* Lines: what a range has applied, and what one more record changes.      *)

\* Every place of a line is a state of a range; the first and the last are places.
LEMMA Entry ==
    ASSUME Typed
    PROVE  /\ Coord \in Ranges
           /\ \A r \in Ranges :
                 /\ Len(line[r]) \in Nat /\ Len(line[r]) >= 1
                 /\ \A k \in 1 .. Len(line[r]) : line[r][k] \in Entries
                 /\ Tip(r) \in Entries /\ Kept(r) \in Entries
<1>1. Coord \in Ranges
  BY AcrossAssumption
<1>2. ASSUME NEW r \in Ranges
      PROVE  /\ Len(line[r]) \in Nat /\ Len(line[r]) >= 1
             /\ \A k \in 1 .. Len(line[r]) : line[r][k] \in Entries
  <2>1. line[r] \in Seq(Entries) /\ Len(line[r]) >= 1
    BY DEF Typed
  <2> QED
    BY <2>1
<1> QED
  BY <1>1, <1>2 DEF Tip, Kept

\* What Apply makes of the lines.
Grown(r, s) ==
    /\ line' \in [Ranges -> Seq(Entries)]
    /\ \A x \in Ranges : x # r => line'[x] = line[x]
    /\ Len(line'[r]) \in Nat /\ Len(line'[r]) >= Len(line[r])
    /\ \A k \in 1 .. Len(line[r]) : line'[r][k] = line[r][k]
    /\ \A k \in 1 .. Len(line'[r]) : k \in 1 .. Len(line[r]) \/ k = Len(line'[r])
    /\ line'[r][Len(line'[r])] = s
    /\ \A x \in Ranges : Len(line'[x]) \in Nat /\ Len(line'[x]) >= 1
    /\ \A x \in Ranges : line'[x][1] = line[x][1]

LEMMA Applied ==
    ASSUME Typed, NEW r \in Ranges, NEW s \in Entries, Apply(r, s)
    PROVE  Grown(r, s)
<1>1. /\ line \in [Ranges -> Seq(Entries)]
      /\ \A x \in Ranges : Len(line[x]) \in Nat /\ Len(line[x]) >= 1
  BY Entry DEF Typed
<1>2. CASE s = Tip(r)
  <2>1. line' = line
    BY <1>1, <1>2 DEF Apply
  <2> QED
    BY <1>1, <1>2, <2>1 DEF Grown, Tip
<1>3. CASE s # Tip(r)
  <2>1. line' = [line EXCEPT ![r] = Append(line[r], s)]
    BY <1>3 DEF Apply
  <2>2. line[r] \in Seq(Entries) /\ Len(line[r]) \in Nat /\ Len(line[r]) >= 1
    BY <1>1
  <2>3. line'[r] = Append(line[r], s) /\ \A x \in Ranges : x # r => line'[x] = line[x]
    BY <1>1, <2>1
  <2>4. /\ Append(line[r], s) \in Seq(Entries) /\ Len(Append(line[r], s)) = Len(line[r]) + 1
        /\ Append(line[r], s)[Len(line[r]) + 1] = s
        /\ \A k \in 1 .. Len(line[r]) : Append(line[r], s)[k] = line[r][k]
    BY <2>2
  <2>5. line' \in [Ranges -> Seq(Entries)]
    BY <1>1, <2>1, <2>4
  <2>6. Len(line'[r]) = Len(line[r]) + 1 /\ line'[r][Len(line'[r])] = s
    BY <2>3, <2>4
  <2>7. \A k \in 1 .. Len(line[r]) : line'[r][k] = line[r][k]
    BY <2>3, <2>4
  <2>8. \A k \in 1 .. Len(line'[r]) : k \in 1 .. Len(line[r]) \/ k = Len(line'[r])
    BY <2>2, <2>6
  <2>9. \A x \in Ranges : Len(line'[x]) \in Nat /\ Len(line'[x]) >= 1 /\ line'[x][1] = line[x][1]
    BY <1>1, <2>2, <2>3, <2>6, <2>7
  <2> QED
    BY <2>2, <2>3, <2>5, <2>6, <2>7, <2>8, <2>9 DEF Grown
<1> QED
  BY <1>2, <1>3

\* A record that changes nothing is Apply's stuttering.
LEMMA SameLine ==
    ASSUME Typed, NEW r \in Ranges, UNCHANGED line
    PROVE  Grown(r, Tip(r))
<1>1. /\ line \in [Ranges -> Seq(Entries)]
      /\ \A x \in Ranges : Len(line[x]) \in Nat /\ Len(line[x]) >= 1
  BY Entry DEF Typed
<1> QED
  BY <1>1 DEF Grown, Tip

\* What a line held for good it still does.
LEMMA GrownKeeps ==
    ASSUME Typed, NEW r \in Ranges, NEW s \in Entries, Grown(r, s), merged' = merged
    PROVE  /\ \A x \in Ranges : Kept(x)' = Kept(x) /\ (x # r => Tip(x)' = Tip(x))
           /\ Tip(r)' = s
           /\ Everywhere' <=> Everywhere
           /\ Refused' <=> Refused
           /\ Resolved' <=> Resolved
           /\ Won' <=> Won
<1>1. \A x \in Ranges : Kept(x)' = Kept(x) /\ (x # r => Tip(x)' = Tip(x))
  BY DEF Grown, Kept, Tip
<1>2. Tip(r)' = s
  BY DEF Grown, Tip
<1>3. (Everywhere' <=> Everywhere) /\ (Refused' <=> Refused) /\ (Resolved' <=> Resolved)
  BY <1>1 DEF Everywhere, Refused, Resolved
<1>4. Won' <=> Won
  BY <1>1, <1>3, AcrossAssumption DEF Won
<1> QED
  BY <1>1, <1>2, <1>3, <1>4

\* One more record keeps the order of a line.
LEMMA GrownLines ==
    ASSUME Typed, Lines, NEW r \in Ranges, NEW s \in Entries, Grown(r, s),
           Sound(s), Keeps(Tip(r), s)
    PROVE  Lines'
<1> SUFFICES ASSUME NEW x \in Ranges
             PROVE  /\ \A k \in 1 .. Len(line'[x]) : Sound(line'[x][k])
                    /\ \A j, k \in 1 .. Len(line'[x]) : j <= k => Keeps(line'[x][j], line'[x][k])
  BY DEF Lines
<1>1. /\ Len(line[x]) \in Nat /\ Len(line[x]) >= 1
      /\ \A k \in 1 .. Len(line[x]) : Sound(line[x][k])
      /\ \A j, k \in 1 .. Len(line[x]) : j <= k => Keeps(line[x][j], line[x][k])
  BY Entry DEF Lines
<1>2. CASE x # r
  <2>1. line'[x] = line[x]
    BY <1>2 DEF Grown
  <2> QED
    BY <1>1, <2>1
<1>3. CASE x = r
  <2>1. ASSUME NEW k \in 1 .. Len(line'[x])
        PROVE  Sound(line'[x][k])
    BY <1>1, <1>3, <2>1 DEF Grown
  <2>2. ASSUME NEW j \in 1 .. Len(line[x])
        PROVE  Keeps(line[x][j], s)
    <3>1. Keeps(line[x][j], Tip(r))
      BY <1>1, <1>3, <2>2 DEF Tip
    <3> QED
      BY <3>1 DEF Keeps
  <2>3. Keeps(s, s)
    BY DEF Keeps
  <2>4. ASSUME NEW j \in 1 .. Len(line'[x]), NEW k \in 1 .. Len(line'[x]), j <= k
        PROVE  Keeps(line'[x][j], line'[x][k])
    <3>1. CASE k \in 1 .. Len(line[x])
      <4>1. j \in 1 .. Len(line[x])
        BY <1>1, <2>4, <3>1
      <4> QED
        BY <1>1, <1>3, <2>4, <3>1, <4>1 DEF Grown
    <3>2. CASE k \notin 1 .. Len(line[x])
      <4>1. k = Len(line'[x]) /\ line'[x][k] = s
        BY <1>3, <2>4, <3>2 DEF Grown
      <4>2. CASE j \in 1 .. Len(line[x])
        BY <1>3, <2>2, <4>1, <4>2 DEF Grown
      <4>3. CASE j \notin 1 .. Len(line[x])
        <5>1. line'[x][j] = s
          BY <1>3, <2>4, <4>3 DEF Grown
        <5> QED
          BY <2>3, <4>1, <5>1
      <4> QED
        BY <4>2, <4>3
    <3> QED
      BY <3>1, <3>2
  <2> QED
    BY <2>1, <2>4
<1> QED
  BY <1>2, <1>3

---------------------------------------------------------------------------
(* A leader's step: range r applies s.  What must hold of s, given what    *)
(* stood at the tip, for the rest of the invariant to follow.              *)

LeaderStep ==
    /\ net' \subseteq net
    /\ UNCHANGED <<pc, merged, known, missed, told, looked, overdue>>

\* What s may add to a line of any range.
Fits(r, s) ==
    /\ Sound(s) /\ Keeps(Tip(r), s)
    /\ s.landed => \/ Tip(r).landed
                   \/ /\ ~Sent("open", Coord) /\ pc \notin {"idle", "opening"}
                      /\ Ask("prepare", r) \notin net'
                      /\ r = Coord => Ask("begin", Coord) \notin net'
    /\ s.barred /\ r = Coord => Tip(Coord).barred \/ (pc # "idle" /\ ~Sent("begin", Coord))
    /\ s.fate = "kept" => Won
    /\ s.fate = "dropped" => Doomed(1)

\* What s may say of T's record, in Coord's line.
Files(s) ==
    /\ Committed(s) =>
          /\ Everywhere
          /\ merged => overdue \/ told = "committed"
          /\ ~merged => /\ pc \in {"deciding", "done"} /\ missed = {}
                        /\ Ask("commit", Coord) \notin net'
    /\ Is(s, "committed") => s.rec.of = Ranges
    /\ s.fate = "kept" => Is(s, "committed") \/ (Unset(s) /\ Resolved)
    /\ merged => /\ ~Is(s, "pending")
                 /\ Is(s, "staging") => s.landed
                 /\ s.landed /\ Unset(s) => Committed(s) \/ Refused
    /\ ~merged => ~Is(s, "staging")
    /\ Ask("settle", Coord) \in net' => ~(s.fate = "kept" /\ Unset(s))

\* Why a doomed transaction stays so, when e stood at the tip of Coord's line.
Follows(e, s) ==
    /\ merged /\ ~e.landed /\ (Is(e, "aborted") \/ ~Sent("begin", Coord)) =>
          ~s.landed /\ (Is(s, "aborted") \/ Ask("begin", Coord) \notin net')
    /\ ~merged /\ ~Committed(e) /\ (missed # {} \/ (pc \in {"deciding", "done"} /\ ~Sent("commit", Coord))) =>
          ~Committed(s)
    /\ ~merged /\ ~Committed(e) /\ Unset(e) /\ ~Sent("open", Coord) =>
          ~Committed(s) /\ Unset(s)

Step(r, s) ==
    /\ Grown(r, s) /\ LeaderStep /\ Fits(r, s)
    /\ r = Coord => Files(s) /\ Follows(Tip(Coord), s)

\* Doomed, and so to remain.
LEMMA StepDoomed ==
    ASSUME Inv, NEW r \in Ranges, NEW s \in Entries, Step(r, s)
    PROVE  \A p \in 1 .. Len(L) : Doomed(p) => Doomed(p)'
<1> SUFFICES ASSUME NEW p \in 1 .. Len(L), Doomed(p)
             PROVE  Doomed(p)'
  OBVIOUS
<1>1. /\ Typed /\ Grown(r, s) /\ net' \subseteq net /\ merged \in BOOLEAN
      /\ pc' = pc /\ merged' = merged /\ missed' = missed
  BY DEF Inv, Step, LeaderStep, Typed
<1>2. Refused' <=> Refused
  BY <1>1, GrownKeeps
<1>3. /\ Len(L) \in Nat /\ Len(L) >= 1 /\ p \in 1 .. Len(L) /\ L[Len(L)] = Tip(Coord)
      /\ Len(L') \in Nat
  BY <1>1, Entry DEF L, Tip, Grown
<1>4. CASE r # Coord
  <2>1. L' = L
    BY <1>1, <1>4, AcrossAssumption DEF L, Grown
  <2> QED
    BY <1>1, <1>2, <2>1 DEF Doomed, Sent
<1>5. CASE r = Coord
  <2>1. Follows(Tip(Coord), s)
    BY <1>5 DEF Step
  <2>2. ASSUME NEW j \in p .. Len(L')
        PROVE  (j \in p .. Len(L) /\ L'[j] = L[j]) \/ L'[j] = s
    BY <1>1, <1>3, <1>5, <2>2 DEF Grown, L
  <2>3. CASE merged
    <3>1. CASE Refused
      BY <1>1, <1>2, <2>3, <3>1 DEF Doomed
    <3>2. CASE \A j \in p .. Len(L) : ~L[j].landed /\ (Is(L[j], "aborted") \/ ~Sent("begin", Coord))
      <4>1. ~s.landed /\ (Is(s, "aborted") \/ Ask("begin", Coord) \notin net')
        BY <1>3, <2>1, <2>3, <3>2 DEF Follows
      <4>2. ASSUME NEW j \in p .. Len(L')
            PROVE  ~L'[j].landed /\ (Is(L'[j], "aborted") \/ Ask("begin", Coord) \notin net')
        BY <1>1, <2>2, <3>2, <4>1, <4>2 DEF Sent
      <4> QED
        BY <1>1, <2>3, <4>2 DEF Doomed, Sent
    <3> QED
      BY <2>3, <3>1, <3>2 DEF Doomed
  <2>4. CASE ~merged
    <3>1. ~Committed(s)
      BY <1>3, <2>1, <2>4 DEF Follows, Doomed
    <3>2. \A j \in p .. Len(L') : ~Committed(L'[j])
      BY <2>2, <2>4, <3>1 DEF Doomed
    <3>3. CASE missed # {} \/ (pc \in {"deciding", "done"} /\ ~Sent("commit", Coord))
      BY <1>1, <2>4, <3>2, <3>3 DEF Doomed, Sent
    <3>4. CASE ~Sent("open", Coord) /\ \A j \in p .. Len(L) : Unset(L[j])
      <4>1. Unset(s)
        BY <1>3, <2>1, <2>4, <3>4 DEF Follows, Doomed
      <4>2. \A j \in p .. Len(L') : Unset(L'[j])
        BY <2>2, <3>4, <4>1
      <4> QED
        BY <1>1, <2>4, <3>2, <3>4, <4>2 DEF Doomed, Sent
    <3> QED
      BY <2>4, <3>3, <3>4 DEF Doomed
  <2> QED
    BY <1>1, <2>3, <2>4
<1> QED
  BY <1>4, <1>5

LEMMA StepFates ==
    ASSUME Inv, NEW r \in Ranges, NEW s \in Entries, Step(r, s)
    PROVE  Fates'
<1>1. /\ Typed /\ Grown(r, s) /\ merged' = merged
  BY DEF Inv, Step, LeaderStep
<1>2. (Won' <=> Won)
  BY <1>1, GrownKeeps
<1>3. Doomed(1) => Doomed(1)'
  <2>1. 1 \in 1 .. Len(L)
    BY <1>1, Entry DEF L
  <2> QED
    BY <2>1, StepDoomed
<1>4. ASSUME NEW x \in Ranges, NEW k \in 1 .. Len(line'[x])
      PROVE  /\ line'[x][k].fate = "kept" => Won
             /\ line'[x][k].fate = "dropped" => Doomed(1)
  <2>1. (k \in 1 .. Len(line[x]) /\ line'[x][k] = line[x][k]) \/ line'[x][k] = s
    BY <1>1, <1>4 DEF Grown
  <2>2. /\ s.fate = "kept" => Won
        /\ s.fate = "dropped" => Doomed(1)
    BY DEF Step, Fits
  <2> QED
    BY <2>1, <2>2 DEF Inv, Fates
<1> QED
  BY <1>2, <1>3, <1>4 DEF Fates

LEMMA StepRecords ==
    ASSUME Inv, NEW r \in Ranges, NEW s \in Entries, Step(r, s)
    PROVE  Records'
<1>1. /\ Typed /\ Grown(r, s) /\ net' \subseteq net
      /\ pc' = pc /\ merged' = merged /\ missed' = missed /\ told' = told /\ overdue' = overdue
  BY DEF Inv, Step, LeaderStep
<1>2. (Everywhere' <=> Everywhere) /\ (Refused' <=> Refused) /\ (Resolved' <=> Resolved)
  BY <1>1, GrownKeeps
<1>3. ASSUME NEW k \in 1 .. Len(L')
      PROVE  Record(k)'
  <2>1. CASE k \in 1 .. Len(L) /\ L'[k] = L[k]
    <3>1. Record(k)
      BY <2>1 DEF Inv, Records
    <3> QED
      BY <1>1, <1>2, <2>1, <3>1 DEF Record, Sent
  <2>2. CASE r = Coord /\ L'[k] = s
    <3>1. Files(s)
      BY <2>2 DEF Step
    <3> QED
      BY <1>1, <1>2, <2>2, <3>1 DEF Record, Files, Sent
  <2> QED
    BY <1>1, <1>3, <2>1, <2>2, AcrossAssumption DEF Grown, L
<1> QED
  BY <1>3 DEF Records

LEMMA StepAsks ==
    ASSUME Inv, NEW r \in Ranges, NEW s \in Entries, Step(r, s)
    PROVE  Asks' /\ Drives'
<1>1. /\ Typed /\ Grown(r, s) /\ net' \subseteq net /\ Fits(r, s) /\ Asks /\ Drives
      /\ pc' = pc /\ merged' = merged /\ missed' = missed /\ told' = told /\ overdue' = overdue
      /\ looked' = looked /\ known' = known
  BY DEF Inv, Step, LeaderStep
<1>2. /\ (Everywhere' <=> Everywhere) /\ (Refused' <=> Refused) /\ (Resolved' <=> Resolved)
      /\ Won' <=> Won
      /\ \A x \in Ranges : Kept(x)' = Kept(x) /\ (x # r => Tip(x)' = Tip(x))
      /\ Tip(r)' = s
  BY <1>1, GrownKeeps
<1>3. Doomed(1) => Doomed(1)'
  <2>1. 1 \in 1 .. Len(L)
    BY <1>1, Entry DEF L
  <2> QED
    BY <2>1, StepDoomed
<1>4. Coord \in Ranges /\ known \subseteq Ranges
  BY <1>1, AcrossAssumption DEF Typed
<1>5. (pc \in {"idle", "opening"} \/ Sent("open", Coord))' =>
          \A x \in Ranges : ~Tip(x)'.landed /\ ~Sent("prepare", x)'
  BY <1>1, <1>2 DEF Asks, Sent, Fits
<1>6. \A x \in Ranges : Sent("prepare", x)' => ~Tip(x)'.landed
  BY <1>1, <1>2 DEF Asks, Sent, Fits
<1>7. Sent("begin", Coord)' => /\ ~Tip(Coord)'.landed /\ ~Tip(Coord)'.barred
                               /\ ~Sent("bar", Coord)'
                               /\ pc' \in {"preparing", "asking", "done"}
  BY <1>1, <1>2, <1>4 DEF Asks, Sent, Fits
<1>7a. pc' = "idle" => net' = {} /\ ~Tip(Coord)'.barred
  BY <1>1, <1>2, <1>4 DEF Asks, Fits
<1>8. Asks'
  BY <1>1, <1>2, <1>3, <1>5, <1>6, <1>7, <1>7a DEF Asks, Sent
<1>9. Drives'
  BY <1>1, <1>2, <1>3, <1>4 DEF Drives, Sent
<1> QED
  BY <1>8, <1>9

\* Answers on their way, those of the step itself aside.
LEMMA StepAnswers ==
    ASSUME Inv, NEW r \in Ranges, NEW s \in Entries, Step(r, s)
    PROVE  /\ reply' = reply => Replied'
           /\ \A x \in Ranges : verdict'[x] = verdict[x] => Answered(x)'
           /\ verdict' = verdict => Verdicts'
           /\ recovering' \in BOOLEAN /\ (recovering' => recovering) => Recovers'
<1>1. /\ Typed /\ Grown(r, s) /\ net' \subseteq net
      /\ pc' = pc /\ merged' = merged /\ missed' = missed /\ told' = told /\ overdue' = overdue
      /\ looked' = looked /\ Keeps(Tip(r), s)
  BY DEF Inv, Step, LeaderStep, Fits
<1>2. /\ Resolved' <=> Resolved
      /\ \A x \in Ranges : x # r => Tip(x)' = Tip(x)
      /\ Tip(r)' = s
  BY <1>1, GrownKeeps
<1>3. \A p \in 1 .. Len(L) : Doomed(p) => Doomed(p)'
  BY StepDoomed
<1>4. ASSUME NEW x \in Ranges, NEW p \in 1 .. Len(line[x])
      PROVE  p \in 1 .. Len(line'[x]) /\ line'[x][p] = line[x][p]
  <2>1. CASE x = r
    BY <1>1, <2>1, Entry DEF Grown
  <2>2. CASE x # r
    BY <1>1, <2>2 DEF Grown
  <2> QED
    BY <2>1, <2>2
<1>5. /\ 1 \in 1 .. Len(L) /\ L = line[Coord] /\ L' = line'[Coord] /\ Coord \in Ranges
  BY <1>1, Entry DEF L
<1>6. ASSUME reply' = reply
      PROVE  Replied'
  <2> SUFFICES ASSUME reply # None, NEW p \in Nat, p = reply.at
               PROVE  ReplyAt(p)'
    BY <1>6 DEF Replied
  <2>1. ReplyAt(p) /\ reply.of \in Ranges
    BY <1>1 DEF Inv, Replied, Typed, Replies
  <2>2. p \in 1 .. Len(line[reply.of])
    BY <2>1 DEF ReplyAt
  <2>3. /\ p \in 1 .. Len(line'[reply.of]) /\ line'[reply.of][p] = line[reply.of][p]
        /\ reply.of = Coord => p \in 1 .. Len(L) /\ L'[p] = L[p]
    BY <1>4, <1>5, <2>1, <2>2
  <2> QED
    BY <1>1, <1>2, <1>3, <1>5, <1>6, <2>1, <2>3 DEF ReplyAt, Sent
<1>7. ASSUME NEW x \in Ranges, verdict'[x] = verdict[x]
      PROVE  Answered(x)'
  <2> SUFFICES ASSUME verdict[x] # None, NEW p \in Nat, p = verdict[x].at
               PROVE  VerdictAt(x, p)'
    BY <1>7 DEF Answered
  <2>1. VerdictAt(x, p)
    BY DEF Inv, Verdicts, Answered
  <2> QED
    BY <1>3, <1>4, <1>5, <1>7, <2>1 DEF VerdictAt
<1>8. ASSUME recovering' \in BOOLEAN, recovering' => recovering
      PROVE  Recovers'
  BY <1>1, <1>2, <1>5, <1>8 DEF Inv, Recovers, Keeps
<1> QED
  BY <1>6, <1>7, <1>8 DEF Verdicts

\* The participants that answered, when the record stays as it was decided.
LEMMA StepGathers ==
    ASSUME Inv, NEW r \in Ranges, NEW s \in Entries, Step(r, s), gone' = gone,
           r = Coord => /\ Decided(Tip(Coord).rec) => Decided(s.rec)
                        /\ Is(s, "committed") => Is(Tip(Coord), "committed") \/ ~Decided(Tip(Coord).rec)
    PROVE  Gathers'
<1>1. /\ Typed /\ Grown(r, s) /\ merged' = merged /\ Gathers
  BY DEF Inv, Step, LeaderStep
<1>2. /\ \A x \in Ranges : Kept(x)' = Kept(x) /\ (x # r => Tip(x)' = Tip(x))
      /\ Tip(r)' = s
  BY <1>1, GrownKeeps
<1>3. Coord \in Ranges /\ gone \subseteq Ranges
  BY <1>1, AcrossAssumption DEF Typed
<1>4. CASE r = Coord
  <2>1. (gone # {})' => Decided(Tip(Coord).rec)'
    BY <1>1, <1>2, <1>4 DEF Gathers, Decided
  <2>2. Is(Tip(Coord), "committed")' => \A x \in gone : Kept(x).fate = "kept"
    BY <1>1, <1>2, <1>4 DEF Gathers, Decided
  <2> QED
    BY <1>2, <1>3, <2>1, <2>2 DEF Gathers
<1>5. CASE r # Coord
  BY <1>1, <1>2, <1>3, <1>5 DEF Gathers
<1> QED
  BY <1>4, <1>5

\* A leader's step keeps the invariant, once its answers are accounted for.
LEMMA StepInv ==
    ASSUME Inv, NEW r \in Ranges, NEW s \in Entries, Step(r, s),
           trimmed' \in [Ranges -> BOOLEAN], mishaps' \in Nat,
           reply' = reply \/ (reply' \in Replies \cup {None} /\ Replied'),
           verdict' = verdict \/ (verdict' \in [Ranges -> Replies \cup {None}] /\ Verdicts'),
           recovering' \in BOOLEAN, (recovering' => recovering) \/ Recovers',
           gone' \subseteq Ranges, Gathers'
    PROVE  Inv'
<1>1. /\ Typed /\ Grown(r, s) /\ net' \subseteq net
      /\ pc' = pc /\ merged' = merged /\ missed' = missed /\ told' = told /\ overdue' = overdue
      /\ looked' = looked /\ known' = known
  BY DEF Inv, Step, LeaderStep
<1>2. line' \in [Ranges -> Seq(Entries)] /\ \A x \in Ranges : Len(line'[x]) >= 1
  BY <1>1 DEF Grown
<1>3. Typed'
  BY <1>1, <1>2 DEF Typed
<1>4. Lines'
  BY <1>1, GrownLines DEF Inv, Step, Fits
<1>5. Fates' /\ Records' /\ Asks' /\ Drives'
  BY StepFates, StepRecords, StepAsks
<1>6. Replied' /\ Verdicts' /\ Recovers'
  BY StepAnswers
<1> QED
  BY <1>3, <1>4, <1>5, <1>6 DEF Inv

\* What the tip says, and what it keeps of what a majority holds.
LEMMA TipFacts ==
    ASSUME Inv, NEW r \in Ranges
    PROVE  /\ Tip(r) \in Entries /\ Sound(Tip(r)) /\ Kept(r) \in Entries /\ Sound(Kept(r))
           /\ Keeps(Kept(r), Tip(r))
           /\ Tip(r).fate = "kept" => Won
           /\ Tip(r).fate = "dropped" => Doomed(1)
<1>1. /\ Len(line[r]) \in Nat /\ Len(line[r]) >= 1
      /\ Tip(r) \in Entries /\ Kept(r) \in Entries
  BY Entry DEF Inv
<1>2. 1 \in 1 .. Len(line[r]) /\ Len(line[r]) \in 1 .. Len(line[r])
  BY <1>1
<1> QED
  BY <1>1, <1>2 DEF Inv, Lines, Fates, Tip, Kept

LEMMA TipRecord ==
    ASSUME Inv
    PROVE  LET e == Tip(Coord) IN
           /\ Committed(e) =>
                 /\ Everywhere
                 /\ merged => overdue \/ told = "committed"
                 /\ ~merged => pc \in {"deciding", "done"} /\ ~Sent("commit", Coord) /\ missed = {}
           /\ Is(e, "committed") => e.rec.of = Ranges
           /\ e.fate = "kept" => Is(e, "committed") \/ (Unset(e) /\ Resolved)
           /\ merged => /\ ~Is(e, "pending")
                        /\ Is(e, "staging") => e.landed
                        /\ e.landed /\ Unset(e) => Committed(e) \/ Refused
           /\ ~merged => ~Is(e, "staging")
           /\ Sent("settle", Coord) => ~(e.fate = "kept" /\ Unset(e))
<1>1. Len(L) \in 1 .. Len(L) /\ Tip(Coord) = L[Len(L)]
  BY Entry DEF Inv, L, Tip
<1>2. Record(Len(L))
  BY <1>1 DEF Inv, Records
<1> QED
  BY <1>1, <1>2 DEF Record

\* The two outcomes exclude each other.
LEMMA WonIsNotDoomed ==
    ASSUME Inv
    PROVE  /\ ~(Everywhere /\ Refused)
           /\ ~(Won /\ Doomed(1))
<1>1. ~(Everywhere /\ Refused)
  BY TipFacts DEF Everywhere, Refused, Sound
<1>2. 1 \in 1 .. Len(L) /\ Kept(Coord) = L[1] /\ Coord \in Ranges /\ merged \in BOOLEAN
  BY Entry DEF Inv, L, Kept, Typed
<1>3. CASE merged
  BY <1>1, <1>2, <1>3 DEF Won, Doomed, Everywhere
<1>4. CASE ~merged
  BY <1>1, <1>2, <1>4 DEF Won, Doomed
<1> QED
  BY <1>1, <1>2, <1>3, <1>4

\* A place of Coord's line that says T is committed.
LEMMA CommittedWins ==
    ASSUME Inv, Committed(Kept(Coord))
    PROVE  Won /\ Committed(Tip(Coord))
<1>1. 1 \in 1 .. Len(L) /\ Kept(Coord) = L[1] /\ Coord \in Ranges
  BY Entry DEF Inv, L, Kept
<1>2. Record(1)
  BY <1>1 DEF Inv, Records
<1>3. Won
  BY <1>1, <1>2 DEF Record, Won
<1> QED
  BY <1>1, <1>3, TipFacts DEF Keeps

\* A step of Coord's line that leaves the record, and T's fate, alone.
LEMMA SameRecord ==
    ASSUME Inv, LeaderStep, NEW s \in Entries, s.rec = Tip(Coord).rec, s.fate = Tip(Coord).fate,
           merged => s.landed = Tip(Coord).landed
    PROVE  Files(s) /\ Follows(Tip(Coord), s)
<1>1. net' \subseteq net
  BY DEF LeaderStep
<1>2. /\ Committed(s) <=> Committed(Tip(Coord))
      /\ Unset(s) <=> Unset(Tip(Coord))
      /\ \A w \in Standings : Is(s, w) <=> Is(Tip(Coord), w)
  BY DEF Committed, Unset, Is
<1>3. Files(s)
  BY <1>1, <1>2, TipRecord DEF Files, Sent, Standings
<1>4. Follows(Tip(Coord), s)
  BY <1>1, <1>2 DEF Follows, Sent, Standings
<1> QED
  BY <1>3, <1>4

\* A step that only takes an ask from the net, or answers.
LEMMA IdleStep ==
    ASSUME Inv, NEW r \in Ranges, LeaderStep, UNCHANGED line
    PROVE  Step(r, Tip(r)) /\ Tip(r) \in Entries
<1>1. Typed /\ Grown(r, Tip(r))
  BY SameLine DEF Inv
<1>2. /\ Tip(r) \in Entries /\ Sound(Tip(r))
      /\ Tip(r).fate = "kept" => Won
      /\ Tip(r).fate = "dropped" => Doomed(1)
  BY TipFacts
<1>3. Fits(r, Tip(r))
  BY <1>2 DEF Fits, Keeps
<1>4. r = Coord => Files(Tip(r)) /\ Follows(Tip(Coord), Tip(r))
  BY <1>2, SameRecord
<1> QED
  BY <1>1, <1>2, <1>3, <1>4 DEF Step

\* ... and changes no answer either.
LEMMA IdleStepInv ==
    ASSUME Inv, NEW r \in Ranges, LeaderStep,
           UNCHANGED <<line, trimmed, reply, verdict, recovering, gone, mishaps>>
    PROVE  Inv'
<1> PICK s \in Entries : s = Tip(r)
  BY IdleStep
<1>1. Step(r, s)
  BY IdleStep
<1>2. Gathers'
  BY <1>1, StepGathers DEF Decided, Is
<1>3. Typed
  BY DEF Inv
<1> QED
  BY <1>1, <1>2, <1>3, StepInv DEF Typed

---------------------------------------------------------------------------
(* The absence of a record, a fate or an answer is none of them.           *)

LEMMA NoneIsApart ==
    /\ \A o \in Outcomes : None # o
    /\ None # "kept" /\ None # "dropped" /\ None # "committed" /\ None # "aborted" /\ None # "doubt"
    /\ None \notin Recs /\ None \notin Replies
    /\ \A w \in Standings : [is |-> w, of |-> Ranges] \in Recs /\ None # [is |-> w, of |-> Ranges]
    /\ None # [is |-> "staging", of |-> Ranges]
<1>1. None \notin Outcomes /\ None \notin Recs /\ None \notin Replies
  BY AcrossAssumption DEF Recs, Replies
<1>2. \A w \in Standings : [is |-> w, of |-> Ranges] \in Recs
  BY DEF Recs
<1> QED
  BY <1>1, <1>2 DEF Outcomes, Standings

---------------------------------------------------------------------------
(* The asks, answered at a range's leader.                                 *)

\* An ask arrives, and of the driver's variables only the answer may change.
LEMMA ArrivesIsLeaderStep ==
    ASSUME NEW kind, NEW r, Arrives(kind, r),
           UNCHANGED <<pc, merged, known, missed, told, looked, overdue>>
    PROVE  LeaderStep /\ Sent(kind, r) /\ Ask(kind, r) \notin net'
  BY DEF Arrives, LeaderStep, Sent

LEMMA PrepareInv ==
    ASSUME Inv, NEW r \in Ranges, Prepare(r)
    PROVE  Inv'
<1>1. LeaderStep /\ Sent("prepare", r) /\ Ask("prepare", r) \notin net'
  BY ArrivesIsLeaderStep DEF Prepare, driverVars, houseVars
<1>2. UNCHANGED <<trimmed, reply, verdict, recovering, gone, mishaps>>
  BY DEF Prepare, driverVars, houseVars
<1>3. CASE UNCHANGED line
  BY <1>1, <1>2, <1>3, IdleStepInv
<1>4. CASE /\ Unwritten(r) /\ ~Tip(r).intent /\ ~Barred(r)
           /\ Apply(r, [Tip(r) EXCEPT !.intent = TRUE, !.landed = TRUE])
  <2>1. /\ Typed /\ Asks /\ Tip(r) \in Entries /\ Sound(Tip(r)) /\ trimmed[r] \in BOOLEAN
    BY TipFacts DEF Inv, Typed
  <2>2. ~Tip(r).landed /\ ~Tip(r).barred /\ Tip(r).value = "read" /\ Tip(r).fate = None
    <3>1. ~Tip(r).landed
      BY <1>1, <2>1 DEF Asks
    <3>2. ~Tip(r).barred /\ Tip(r).value = "read"
      BY <1>4, <2>1 DEF Unwritten, Barred
    <3>3. Tip(r).fate = None
      BY <2>1, <3>1 DEF Sound
    <3> QED
      BY <3>1, <3>2, <3>3
  <2> PICK s \in Entries : s = [Tip(r) EXCEPT !.intent = TRUE, !.landed = TRUE]
    BY <2>1 DEF Entries
  <2>3. /\ s.rec = Tip(r).rec /\ s.intent /\ s.landed /\ ~s.barred /\ s.value = "read" /\ s.fate = None
    BY <2>1, <2>2 DEF Entries
  <2>4. Grown(r, s)
    BY <1>4, <2>1, Applied
  <2>5. None # "kept" /\ None # "dropped"
    BY NoneIsApart
  <2>6. ~Sent("open", Coord) /\ pc \notin {"idle", "opening"} /\ (r = Coord => ~merged /\ ~Sent("begin", Coord))
    BY <1>1, <2>1 DEF Asks
  <2>7. Fits(r, s)
    <3>1. Sound(s) /\ Keeps(Tip(r), s)
      BY <2>2, <2>3, <2>5 DEF Sound, Keeps, Committed, Is
    <3>2. s.fate # "kept" /\ s.fate # "dropped"
      BY <2>3, <2>5
    <3> QED
      BY <1>1, <2>3, <2>6, <3>1, <3>2 DEF Fits, LeaderStep, Sent
  <2>8. r = Coord => Files(s) /\ Follows(Tip(Coord), s)
    BY <1>1, <2>2, <2>3, <2>6, SameRecord
  <2>9. Step(r, s)
    BY <1>1, <2>4, <2>7, <2>8 DEF Step
  <2>10. Gathers'
    BY <1>2, <2>3, <2>9, StepGathers DEF Is
  <2> QED
    BY <1>2, <2>1, <2>9, <2>10, StepInv DEF Typed
<1> QED
  BY <1>3, <1>4 DEF Prepare

LEMMA BeginInv ==
    ASSUME Inv, Begin
    PROVE  Inv'
<1>1. LeaderStep /\ Sent("begin", Coord) /\ Ask("begin", Coord) \notin net'
  BY ArrivesIsLeaderStep DEF Begin, driverVars, houseVars
<1>2. UNCHANGED <<trimmed, reply, verdict, recovering, gone, mishaps>> /\ Coord \in Ranges
  BY AcrossAssumption DEF Begin, driverVars, houseVars
<1>3. CASE UNCHANGED line
  BY <1>1, <1>2, <1>3, IdleStepInv
<1>4. CASE /\ Unwritten(Coord) /\ ~Tip(Coord).intent /\ Accepts(Tip(Coord).rec, "staging", TRUE)
           /\ Apply(Coord, [Tip(Coord) EXCEPT !.rec = [is |-> "staging", of |-> Ranges],
                                              !.intent = TRUE, !.landed = TRUE])
  <2>1. /\ Typed /\ Asks /\ Drives /\ Tip(Coord) \in Entries /\ Sound(Tip(Coord)) /\ trimmed[Coord] \in BOOLEAN
    BY <1>2, TipFacts DEF Inv, Typed
  <2>2. /\ merged /\ ~Tip(Coord).landed /\ ~Tip(Coord).barred /\ pc \notin {"idle", "opening"}
        /\ Tip(Coord).value = "read" /\ Tip(Coord).fate = None
    BY <1>1, <1>4, <2>1 DEF Asks, Drives, Unwritten, Sound
  <2>3. None # "kept" /\ None # "dropped" /\ None # [is |-> "staging", of |-> Ranges]
    BY NoneIsApart
  <2>4. Tip(Coord).rec = None
    <3>1. Tip(Coord).rec # None => Tip(Coord).rec \in Recs
      BY <2>1 DEF Entries
    <3> QED
      BY <1>4, <3>1 DEF Accepts, Decided, Recs, Standings
  <2> PICK s \in Entries : s = [Tip(Coord) EXCEPT !.rec = [is |-> "staging", of |-> Ranges],
                                                  !.intent = TRUE, !.landed = TRUE]
    BY <2>1 DEF Entries, Recs, Standings
  <2>5. /\ s.rec = [is |-> "staging", of |-> Ranges] /\ s.intent /\ s.landed /\ ~s.barred
        /\ s.value = "read" /\ s.fate = None
    BY <2>1, <2>2 DEF Entries
  <2>6. Grown(Coord, s)
    BY <1>2, <1>4, <2>1, Applied
  <2>7. /\ Is(s, "staging") /\ ~Is(s, "committed") /\ ~Is(s, "aborted") /\ ~Is(s, "pending")
        /\ ~Committed(s) /\ ~Unset(s) /\ ~Committed(Tip(Coord))
    BY <2>2, <2>3, <2>4, <2>5 DEF Is, Committed, Unset
  <2>8. s.fate # "kept" /\ s.fate # "dropped"
    BY <2>3, <2>5
  <2>9. Fits(Coord, s)
    <3>1. Sound(s) /\ Keeps(Tip(Coord), s)
      BY <2>2, <2>5, <2>7, <2>8 DEF Sound, Keeps
    <3>2. ~Sent("open", Coord) /\ ~Sent("prepare", Coord)
      BY <2>1, <2>2 DEF Asks
    <3> QED
      BY <1>1, <2>2, <2>5, <2>8, <3>1, <3>2 DEF Fits, LeaderStep, Sent
  <2>10. Files(s)
    BY <2>2, <2>5, <2>7, <2>8 DEF Files
  <2>11. Follows(Tip(Coord), s)
    BY <1>1, <2>2, <2>4 DEF Follows, Is
  <2>12. Step(Coord, s)
    BY <1>1, <2>6, <2>9, <2>10, <2>11 DEF Step
  <2>13. Gathers'
    BY <1>2, <2>4, <2>7, <2>12, StepGathers DEF Decided
  <2> QED
    BY <1>2, <2>1, <2>12, <2>13, StepInv DEF Typed
<1> QED
  BY <1>3, <1>4 DEF Begin

---------------------------------------------------------------------------
(* Steps that write the record and nothing else of Coord's state.          *)


LEMMA RecordStep ==
    ASSUME Inv, LeaderStep, NEW R \in Recs \cup {None},
           Apply(Coord, [Tip(Coord) EXCEPT !.rec = R])
    PROVE  \E s \in Entries :
              /\ Grown(Coord, s)
              /\ s.rec = R /\ s.fate = Tip(Coord).fate /\ s.landed = Tip(Coord).landed
              /\ (Is(Tip(Coord), "committed") => Committed(s)) => Fits(Coord, s)
<1>1. /\ Coord \in Ranges /\ Typed /\ Tip(Coord) \in Entries /\ Sound(Tip(Coord))
      /\ Tip(Coord).fate = "kept" => Won
      /\ Tip(Coord).fate = "dropped" => Doomed(1)
  BY AcrossAssumption, TipFacts DEF Inv
<1> PICK s \in Entries : s = [Tip(Coord) EXCEPT !.rec = R]
  BY <1>1 DEF Entries
<1>2. /\ s.rec = R /\ s.fate = Tip(Coord).fate /\ s.landed = Tip(Coord).landed
      /\ s.intent = Tip(Coord).intent /\ s.barred = Tip(Coord).barred /\ s.value = Tip(Coord).value
  BY <1>1 DEF Entries
<1>3. Grown(Coord, s)
  BY <1>1, Applied
<1>4. Sound(s)
  BY <1>1, <1>2 DEF Sound
<1>5. ASSUME Is(Tip(Coord), "committed") => Committed(s)
      PROVE  Fits(Coord, s)
  BY <1>1, <1>2, <1>4, <1>5 DEF Fits, Keeps, Committed
<1> QED
  BY <1>2, <1>3, <1>5

\* The record is aborted: it was not committed, nor staging without a part refused.
LEMMA AbortStep ==
    ASSUME Inv, LeaderStep, NEW R \in Recs, R.is = "aborted",
           Apply(Coord, [Tip(Coord) EXCEPT !.rec = R]),
           ~Is(Tip(Coord), "committed"), Is(Tip(Coord), "staging") => Refused
    PROVE  \E s \in Entries :
              /\ Step(Coord, s) /\ s.rec = R /\ Is(s, "aborted")
              /\ s.fate = Tip(Coord).fate /\ s.landed = Tip(Coord).landed
<1> PICK s \in Entries :
              /\ Grown(Coord, s)
              /\ s.rec = R /\ s.fate = Tip(Coord).fate /\ s.landed = Tip(Coord).landed
              /\ (Is(Tip(Coord), "committed") => Committed(s)) => Fits(Coord, s)
  BY RecordStep
<1>1. /\ Is(s, "aborted") /\ Unset(s)
      /\ ~Is(s, "committed") /\ ~Is(s, "pending") /\ ~Is(s, "staging")
      /\ Committed(s) <=> s.fate = "kept"
      /\ Committed(Tip(Coord)) <=> s.fate = "kept"
  BY NoneIsApart DEF Is, Unset, Committed
<1>2. /\ Tip(Coord) \in Entries /\ net' \subseteq net
  BY TipFacts, AcrossAssumption DEF LeaderStep
<1>3. Is(Tip(Coord), "pending") \/ Is(Tip(Coord), "staging") \/ Unset(Tip(Coord))
  BY <1>2 DEF Entries, Recs, Standings, Is, Unset
<1>4. Files(s)
  <2>1. merged /\ s.landed => Committed(s) \/ Refused
    BY <1>1, <1>3, TipRecord
  <2>2. s.fate = "kept" => Unset(Tip(Coord)) /\ Resolved
    BY TipRecord
  <2> QED
    BY <1>1, <1>2, <2>1, <2>2, TipRecord DEF Files, Sent
<1>5. Follows(Tip(Coord), s)
  BY <1>1 DEF Follows
<1> QED
  BY <1>1, <1>4, <1>5 DEF Step

\* The record is committed: it stood undecided, or so already, and every part is held.
LEMMA CommitStep ==
    ASSUME Inv, LeaderStep, Apply(Coord, [Tip(Coord) EXCEPT !.rec = [is |-> "committed", of |-> Ranges]]),
           ~Unset(Tip(Coord)), Everywhere,
           merged => overdue \/ told = "committed",
           ~merged => \/ Is(Tip(Coord), "committed")
                      \/ Sent("commit", Coord) /\ Ask("commit", Coord) \notin net'
    PROVE  \E s \in Entries :
              /\ Step(Coord, s) /\ Is(s, "committed") /\ s.rec = [is |-> "committed", of |-> Ranges]
              /\ s.fate = Tip(Coord).fate /\ s.landed = Tip(Coord).landed
<1>1. [is |-> "committed", of |-> Ranges] \in Recs \cup {None} /\ None # [is |-> "committed", of |-> Ranges]
  BY NoneIsApart DEF Standings
<1> PICK s \in Entries :
              /\ Grown(Coord, s)
              /\ s.rec = [is |-> "committed", of |-> Ranges] /\ s.fate = Tip(Coord).fate
              /\ s.landed = Tip(Coord).landed
              /\ (Is(Tip(Coord), "committed") => Committed(s)) => Fits(Coord, s)
  BY <1>1, RecordStep
<1>2. /\ Is(s, "committed") /\ Committed(s) /\ s.rec.of = Ranges
      /\ ~Is(s, "pending") /\ ~Is(s, "staging") /\ ~Unset(s)
  BY <1>1 DEF Is, Unset, Committed
<1>3. net' \subseteq net /\ Asks /\ merged \in BOOLEAN
  BY DEF LeaderStep, Inv, Typed
<1>4. ~merged => /\ pc \in {"deciding", "done"} /\ missed = {} /\ Ask("commit", Coord) \notin net'
                 /\ Committed(Tip(Coord)) \/ Sent("commit", Coord)
  <2>1. CASE Is(Tip(Coord), "committed")
    BY <1>3, <2>1, TipRecord DEF Committed, Sent
  <2>2. CASE Sent("commit", Coord) /\ Ask("commit", Coord) \notin net'
    BY <1>3, <2>2 DEF Asks
  <2> QED
    BY <2>1, <2>2
<1>5. Files(s)
  BY <1>2, <1>4 DEF Files
<1>6. Tip(Coord).landed
  BY TipFacts, AcrossAssumption DEF Everywhere, Keeps
<1>7. Follows(Tip(Coord), s)
  BY <1>4, <1>6 DEF Follows
<1> QED
  BY <1>2, <1>5, <1>7 DEF Step

\* An abort that stands at the tip of Coord's line dooms T from there on, unless it
\* was written over the forgotten record of a committed one.
LEMMA AbortedHere ==
    ASSUME Inv, NEW s \in Entries, Step(Coord, s), Is(s, "aborted"), pc # "idle", ~Sent("open", Coord)
    PROVE  \A p \in Nat : p = Len(line'[Coord]) =>
               p \in 1 .. Len(L)' /\ (Doomed(p)' \/ (s.fate = "kept" /\ Resolved /\ Resolved'))
<1> SUFFICES ASSUME NEW p \in Nat, p = Len(line'[Coord])
             PROVE  p \in 1 .. Len(L)' /\ (Doomed(p)' \/ (s.fate = "kept" /\ Resolved /\ Resolved'))
  OBVIOUS
<1>1. /\ Coord \in Ranges /\ Typed /\ Grown(Coord, s) /\ Files(s) /\ pc' = pc /\ merged' = merged
      /\ net' \subseteq net /\ merged \in BOOLEAN
  BY AcrossAssumption DEF Inv, Step, LeaderStep, Typed
<1>2. /\ p \in 1 .. Len(L)' /\ L' = line'[Coord] /\ L'[p] = s /\ \A j \in p .. Len(L') : j = p
  BY <1>1 DEF Grown, L
<1>3. (Refused' <=> Refused) /\ (Resolved' <=> Resolved)
  BY <1>1, GrownKeeps
<1>4. Unset(s) /\ ~Is(s, "committed")
  BY DEF Unset, Is
<1>5. CASE Committed(s)
  BY <1>1, <1>2, <1>3, <1>4, <1>5 DEF Committed, Files
<1>6. CASE ~Committed(s) /\ merged
  <2>1. s.landed => Refused
    BY <1>1, <1>4, <1>6 DEF Files
  <2> QED
    BY <1>1, <1>2, <1>3, <1>6, <2>1 DEF Doomed
<1>7. CASE ~Committed(s) /\ ~merged
  BY <1>1, <1>2, <1>4, <1>7 DEF Doomed, Sent
<1> QED
  BY <1>1, <1>5, <1>6, <1>7

---------------------------------------------------------------------------
(* The asks about the record.                                              *)

\* An ask about the record is answered: only the answer is left to account for.
LEMMA AnswerInv ==
    ASSUME Inv, NEW r \in Ranges, NEW s \in Entries, Step(r, s),
           UNCHANGED <<trimmed, verdict, recovering, gone, mishaps>>,
           reply' = reply \/ (reply' \in Replies /\ \A p \in Nat : p = reply'.at => ReplyAt(p)'),
           r = Coord => /\ Decided(Tip(Coord).rec) => Decided(s.rec)
                        /\ Is(s, "committed") => Is(Tip(Coord), "committed") \/ ~Decided(Tip(Coord).rec)
    PROVE  Inv'
<1>1. Gathers'
  BY StepGathers
<1>2. reply' = reply \/ (reply' \in Replies \cup {None} /\ Replied')
  BY DEF Replied
<1>3. Typed
  BY DEF Inv
<1> QED
  BY <1>1, <1>2, <1>3, StepInv DEF Typed

\* Pending is written only over nothing, or over itself.
LEMMA OpenStep ==
    ASSUME Inv, LeaderStep, Sent("open", Coord),
           Apply(Coord, [Tip(Coord) EXCEPT !.rec = [is |-> "pending", of |-> Ranges]]),
           Accepts(Tip(Coord).rec, "pending", FALSE)
    PROVE  \E s \in Entries :
              /\ Step(Coord, s) /\ Is(s, "pending") /\ ~Decided(Tip(Coord).rec)
<1>1. [is |-> "pending", of |-> Ranges] \in Recs \cup {None} /\ None # [is |-> "pending", of |-> Ranges]
  BY NoneIsApart DEF Standings
<1> PICK s \in Entries :
              /\ Grown(Coord, s)
              /\ s.rec = [is |-> "pending", of |-> Ranges] /\ s.fate = Tip(Coord).fate
              /\ s.landed = Tip(Coord).landed
              /\ (Is(Tip(Coord), "committed") => Committed(s)) => Fits(Coord, s)
  BY <1>1, RecordStep
<1>2. /\ Coord \in Ranges /\ Tip(Coord) \in Entries /\ Sound(Tip(Coord)) /\ Asks /\ Tip(Coord).rec \in Recs \cup {None}
  BY AcrossAssumption, TipFacts DEF Inv, Entries
<1>3. ~merged /\ ~Tip(Coord).landed /\ Tip(Coord).fate # "kept"
  BY <1>2, NoneIsApart DEF Asks, Sound
<1>4. ~Decided(Tip(Coord).rec) /\ ~Is(Tip(Coord), "committed")
  BY <1>2 DEF Accepts, Decided, Is, Recs, Standings
<1>5. /\ Is(s, "pending") /\ ~Is(s, "committed") /\ ~Is(s, "staging") /\ ~Committed(s)
  BY <1>1, <1>3 DEF Is, Committed
<1>6. Files(s)
  BY <1>3, <1>5 DEF Files
<1>7. Follows(Tip(Coord), s)
  BY <1>3, <1>5 DEF Follows
<1> QED
  BY <1>4, <1>5, <1>6, <1>7 DEF Step

LEMMA DecideInv ==
    ASSUME Inv, NEW kind \in {"open", "commit", "abort"}, Decide(kind)
    PROVE  Inv'
<1> DEFINE rec == Tip(Coord).rec
<1>1. LeaderStep /\ Sent(kind, Coord) /\ Ask(kind, Coord) \notin net' /\ Coord \in Ranges
  BY ArrivesIsLeaderStep, AcrossAssumption DEF Decide, houseVars
<1>2. UNCHANGED <<trimmed, verdict, recovering, gone, mishaps>>
  BY DEF Decide, houseVars
<1>3. /\ Typed /\ Asks /\ Drives /\ Tip(Coord) \in Entries /\ rec \in Recs \cup {None} /\ pc' = pc
      /\ merged' = merged /\ missed' = missed /\ merged \in BOOLEAN
  BY <1>1, TipFacts DEF Inv, Entries, LeaderStep, Typed
<1>4. CASE ~Accepts(rec, Decision(kind), FALSE)
  <2>1. UNCHANGED line /\ Answers(kind, Coord, IF rec = None THEN "absent" ELSE rec.is, 1)
    BY <1>4 DEF Decide
  <2> PICK s \in Entries : s = Tip(Coord)
    BY <1>3
  <2>2. Step(Coord, s) /\ Grown(Coord, s)
    BY <1>1, <2>1, IdleStep DEF Step
  <2>3. CASE reply' = reply
    BY <1>1, <1>2, <2>2, <2>3, AnswerInv DEF Decided, Is
  <2>4. CASE pc = Waits(kind) /\ reply' = [says |-> IF rec = None THEN "absent" ELSE rec.is, of |-> Coord, at |-> 1]
    <3>1. /\ reply' \in Replies /\ reply'.of = Coord /\ reply'.at = 1
          /\ reply'.says = IF rec = None THEN "absent" ELSE rec.is
      BY <1>1, <1>3, <2>4 DEF Replies, Says, Recs
    <3>2. reply'.says # "ok" /\ 1 \in 1 .. Len(line'[Coord]) /\ Len(L)' = Len(line'[Coord])
      BY <1>1, <1>3, <2>2, <3>1 DEF Recs, Standings, Grown, L
    <3>3. ASSUME kind = "commit"
          PROVE  Doomed(1)'
      <4>1. /\ ~merged /\ pc = "deciding" /\ Sent("commit", Coord) /\ Ask("commit", Coord) \notin net'
        BY <1>1, <1>3, <2>4, <3>3 DEF Asks, Waits
      <4>2. \A j \in 1 .. Len(L) : ~Committed(L[j])
        BY <4>1 DEF Inv, Records, Record
      <4>3. L' = L
        BY <2>1 DEF L
      <4> QED
        BY <1>3, <4>1, <4>2, <4>3 DEF Doomed, Sent
    <3>4. ReplyAt(1)'
      <4>1. CASE kind = "open"
        BY <1>1, <1>3, <2>4, <3>1, <3>2, <4>1 DEF ReplyAt, Waits, Sent
      <4>2. CASE kind = "commit"
        BY <1>1, <1>3, <2>4, <3>1, <3>2, <3>3, <4>2 DEF ReplyAt, Waits, Sent
      <4>3. CASE kind = "abort"
        BY <1>1, <1>3, <2>4, <3>1, <3>2, <4>3 DEF ReplyAt, Waits, Asks
      <4> QED
        BY <4>1, <4>2, <4>3
    <3>5. \A p \in Nat : p = reply'.at => ReplyAt(p)'
      BY <3>1, <3>4
    <3> QED
      BY <1>1, <1>2, <2>2, <3>1, <3>5, AnswerInv DEF Decided, Is
  <2> QED
    BY <2>1, <2>3, <2>4 DEF Answers
<1>5. CASE Accepts(rec, Decision(kind), FALSE)
  <2>1. /\ Apply(Coord, [Tip(Coord) EXCEPT !.rec = [is |-> Decision(kind), of |-> Ranges]])
        /\ Answers(kind, Coord, "ok", Len(line'[Coord]))
    BY <1>5 DEF Decide
  <2>2. \E s \in Entries :
           /\ Step(Coord, s)
           /\ Decided(Tip(Coord).rec) => Decided(s.rec)
           /\ Is(s, "committed") => Is(Tip(Coord), "committed") \/ ~Decided(Tip(Coord).rec)
           /\ kind = "commit" => Is(s, "committed")
    <3>1. CASE kind = "open"
      <4>1. Decision(kind) = "pending"
        BY <3>1 DEF Decision
      <4> PICK s \in Entries : /\ Step(Coord, s) /\ Is(s, "pending") /\ ~Decided(Tip(Coord).rec)
        BY <1>1, <1>5, <2>1, <3>1, <4>1, OpenStep
      <4> QED
        BY <3>1
    <3>2. CASE kind = "commit"
      <4>1. Decision(kind) = "committed"
        BY <3>2 DEF Decision
      <4>2. ~Unset(Tip(Coord)) /\ (Decided(rec) => Is(Tip(Coord), "committed"))
        <5>1. rec # None
          BY <1>3, <1>5, <4>1 DEF Accepts, Decided
        <5>2. rec.is \in Standings
          BY <1>3, <5>1 DEF Recs
        <5>3. rec.is # "aborted"
          BY <1>5, <4>1, <5>1 DEF Accepts, Decided
        <5> QED
          BY <5>1, <5>2, <5>3 DEF Unset, Is, Decided, Standings
      <4>3. ~merged /\ Everywhere
        BY <1>1, <1>3, <3>2 DEF Asks
      <4> PICK s \in Entries : Step(Coord, s) /\ Is(s, "committed")
        BY <1>1, <2>1, <3>2, <4>1, <4>2, <4>3, CommitStep
      <4> QED
        BY <4>2 DEF Is, Decided
    <3>3. CASE kind = "abort"
      <4>1. Decision(kind) = "aborted"
        BY <3>3 DEF Decision
      <4>2. ~Is(Tip(Coord), "committed") /\ (Is(Tip(Coord), "staging") => Refused)
        <5>1. Is(Tip(Coord), "staging") => merged
          BY <1>3, TipRecord
        <5> QED
          BY <1>1, <1>3, <1>5, <3>3, <4>1, <5>1 DEF Accepts, Unset, Is, Decided, Recs, Standings, Asks
      <4>3. PICK R \in Recs : R = [is |-> "aborted", of |-> Ranges]
        BY NoneIsApart DEF Standings
      <4> PICK s \in Entries : Step(Coord, s) /\ Is(s, "aborted")
        BY <1>1, <2>1, <4>1, <4>2, <4>3, AbortStep
      <4> QED
        BY <3>3 DEF Is, Decided
    <3> QED
      BY <3>1, <3>2, <3>3
  <2> PICK s \in Entries :
           /\ Step(Coord, s)
           /\ Decided(Tip(Coord).rec) => Decided(s.rec)
           /\ Is(s, "committed") => Is(Tip(Coord), "committed") \/ ~Decided(Tip(Coord).rec)
           /\ kind = "commit" => Is(s, "committed")
    BY <2>2
  <2>3. CASE reply' = reply
    BY <1>1, <1>2, <2>3, AnswerInv
  <2>4. CASE pc = Waits(kind) /\ reply' = [says |-> "ok", of |-> Coord, at |-> Len(line'[Coord])]
    <3>1. /\ Len(line'[Coord]) \in Nat /\ Len(line'[Coord]) \in 1 .. Len(line'[Coord])
          /\ line'[Coord][Len(line'[Coord])] = s /\ L' = line'[Coord]
      BY <1>1 DEF Step, Grown, L
    <3>2. reply' \in Replies /\ reply'.of = Coord /\ reply'.at = Len(line'[Coord]) /\ reply'.says = "ok"
      BY <1>1, <2>4, <3>1 DEF Replies, Says
    <3>3. ASSUME NEW p \in Nat, p = reply'.at
          PROVE  ReplyAt(p)'
      <4>1. CASE kind = "open"
        BY <1>1, <1>3, <2>4, <3>1, <3>2, <3>3, <4>1 DEF ReplyAt, Waits, Sent
      <4>2. CASE kind = "commit"
        <5>1. Committed(L'[p])
          BY <3>1, <3>2, <3>3, <4>2 DEF Committed
        <5> QED
          BY <1>1, <1>3, <2>4, <3>1, <3>2, <3>3, <4>2, <5>1 DEF ReplyAt, Waits, Sent
      <4>3. CASE kind = "abort"
        BY <1>1, <1>3, <2>4, <3>1, <3>2, <3>3, <4>3 DEF ReplyAt, Waits, Asks
      <4> QED
        BY <4>1, <4>2, <4>3
    <3> QED
      BY <1>1, <1>2, <3>2, <3>3, AnswerInv
  <2> QED
    BY <2>1, <2>3, <2>4 DEF Answers
<1> QED
  BY <1>4, <1>5

\* What a settle makes of the record it reads.
LEMMA SettledRecord ==
    ASSUME NEW rec \in Recs \cup {None}, Settled(rec) # None
    PROVE  /\ Settled(rec) \in Recs /\ Settled(rec).is \in {"committed", "aborted"}
           /\ Settled(rec).is = "committed" => Settled(rec) = rec
           /\ rec = None \/ rec.is # "staging"
<1>1. CASE rec = None
  BY <1>1, AcrossAssumption DEF Settled, Recs, Standings
<1>2. CASE rec # None
  BY <1>2 DEF Settled, Recs, Standings, Decided
<1> QED
  BY <1>1, <1>2

\* The driver's ask about the record, answered at once or not yet.
LEMMA AskedInv ==
    ASSUME Inv, Settle \/ Lookup
    PROVE  Inv'
<1> DEFINE rec == Tip(Coord).rec
<1>1. LeaderStep /\ (Sent("settle", Coord) \/ Sent("lookup", Coord)) /\ Coord \in Ranges
  BY ArrivesIsLeaderStep, AcrossAssumption DEF Settle, Lookup
<1>2. UNCHANGED <<line, trimmed, verdict, recovering, gone, mishaps>>
  BY DEF Settle, Lookup
<1>3. /\ Asks /\ merged /\ pc' = pc /\ merged' = merged /\ net' \subseteq net
  BY <1>1 DEF Inv, Asks, LeaderStep, Typed
<1> PICK s \in Entries : s = Tip(Coord)
  BY <1>1, TipFacts
<1>4. Step(Coord, s)
  BY <1>1, <1>2, IdleStep
<1>5. rec \in Recs \cup {None}
  BY DEF Entries
<1>6. CASE reply' = reply
  BY <1>1, <1>2, <1>4, <1>6, AnswerInv DEF Is, Decided
<1>7. CASE /\ pc = "asking"
           /\ \E w \in {"pending", "staging"} :
                 /\ w = "staging" => Is(Tip(Coord), "staging")
                 /\ reply' = [says |-> w, of |-> Coord, at |-> 1]
  <2> PICK w \in {"pending", "staging"} :
                 /\ w = "staging" => Is(Tip(Coord), "staging")
                 /\ reply' = [says |-> w, of |-> Coord, at |-> 1]
    BY <1>7
  <2>1. 1 \in 1 .. Len(line'[Coord])
    BY <1>1, <1>4 DEF Step, Grown
  <2>2. /\ reply' \in Replies /\ reply'.of = Coord /\ reply'.says = w /\ reply'.at = 1
    BY <1>1 DEF Replies, Says, Standings
  <2>3. ASSUME w = "staging" PROVE ~Sent("begin", Coord)'
    <3>1. Tip(Coord).landed
      BY <1>3, <2>3, TipRecord
    <3> QED
      BY <1>3, <3>1 DEF Asks, Sent
  <2>4. \A p \in Nat : p = reply'.at => ReplyAt(p)'
    BY <1>3, <1>7, <2>1, <2>2, <2>3 DEF ReplyAt
  <2> QED
    BY <1>1, <1>2, <1>4, <2>2, <2>4, AnswerInv DEF Is, Decided
<1>8. CASE Settle
  <2>1. reply' = reply \/ (Settled(rec) = None /\ Answers("settle", Coord, rec.is, 1))
    BY <1>8 DEF Settle
  <2>2. Settled(rec) = None => rec # None /\ rec.is \in {"pending", "staging"}
    BY <1>5, NoneIsApart, AcrossAssumption DEF Settled, Decided, Recs, Standings
  <2> QED
    BY <1>6, <1>7, <2>1, <2>2 DEF Answers, Waits, Is
<1>9. CASE Lookup
  <2>1. \/ reply' = reply
        \/ ~Decided(rec) /\ Answers("lookup", Coord, IF rec = None THEN "pending" ELSE rec.is, 1)
    BY <1>9 DEF Lookup
  <2>2. ~Decided(rec) => rec = None \/ rec.is \in {"pending", "staging"}
    BY <1>5 DEF Decided, Recs, Standings
  <2> QED
    BY <1>6, <1>7, <2>1, <2>2 DEF Answers, Waits, Is
<1> QED
  BY <1>8, <1>9

---------------------------------------------------------------------------
(* Bars and resolutions.                                                   *)

LEMMA PreventStep ==
    ASSUME Inv, LeaderStep, NEW r \in Ranges, Prevent(r),
           r = Coord => (pc # "idle" /\ ~Sent("begin", Coord)) \/ Tip(Coord).landed
    PROVE  \E s \in Entries : /\ Step(r, s) /\ s.rec = Tip(r).rec
                              /\ s.landed = Tip(r).landed /\ (s.landed \/ s.barred)
<1>1. /\ Typed /\ Tip(r) \in Entries /\ Sound(Tip(r)) /\ trimmed[r] \in BOOLEAN
      /\ Tip(r).fate = "kept" => Won
      /\ Tip(r).fate = "dropped" => Doomed(1)
  BY TipFacts DEF Inv, Typed
<1>2. CASE Tip(r).landed \/ Barred(r)
  <2> PICK s \in Entries : s = Tip(r)
    BY <1>1
  <2>1. Step(r, s)
    BY <1>2, IdleStep DEF Prevent
  <2> QED
    BY <1>2, <2>1 DEF Barred
<1>3. CASE ~(Tip(r).landed \/ Barred(r))
  <2> PICK s \in Entries : s = [Tip(r) EXCEPT !.barred = TRUE]
    BY <1>1 DEF Entries
  <2>1. /\ s.rec = Tip(r).rec /\ s.landed = Tip(r).landed /\ s.barred /\ s.fate = Tip(r).fate
        /\ s.intent = Tip(r).intent /\ s.value = Tip(r).value
    BY <1>1 DEF Entries
  <2>2. Grown(r, s)
    BY <1>1, <1>3, Applied DEF Prevent
  <2>3. Fits(r, s)
    <3>1. Sound(s) /\ Keeps(Tip(r), s)
      BY <1>1, <1>3, <2>1 DEF Sound, Keeps, Committed, Is
    <3> QED
      BY <1>1, <1>3, <2>1, <3>1 DEF Fits
  <2>4. r = Coord => Files(s) /\ Follows(Tip(Coord), s)
    BY <2>1, SameRecord
  <2>5. Step(r, s)
    BY <2>2, <2>3, <2>4 DEF Step
  <2> QED
    BY <2>1, <2>5
<1> QED
  BY <1>2, <1>3

LEMMA BarInv ==
    ASSUME Inv, NEW r \in Ranges, Bar(r)
    PROVE  Inv'
<1>1. LeaderStep /\ Sent("bar", r)
  BY ArrivesIsLeaderStep DEF Bar, houseVars
<1>2. /\ UNCHANGED <<trimmed, verdict, recovering, gone, mishaps>> /\ Prevent(r)
      /\ Answers("bar", r, IF Tip(r).landed THEN "landed" ELSE "barred", Len(line'[r]))
  BY DEF Bar, houseVars
<1>3. r = Coord => pc # "idle" /\ ~Sent("begin", Coord)
  BY <1>1 DEF Inv, Asks, Sent
<1> PICK s \in Entries : /\ Step(r, s) /\ s.rec = Tip(r).rec
                         /\ s.landed = Tip(r).landed /\ (s.landed \/ s.barred)
  BY <1>1, <1>2, <1>3, PreventStep
<1>4. CASE reply' = reply
  BY <1>2, <1>4, AnswerInv DEF Is
<1>5. CASE /\ pc = "barring"
           /\ reply' = [says |-> IF Tip(r).landed THEN "landed" ELSE "barred", of |-> r, at |-> Len(line'[r])]
  <2>1. /\ Len(line'[r]) \in Nat /\ Len(line'[r]) \in 1 .. Len(line'[r]) /\ line'[r][Len(line'[r])] = s
    BY DEF Step, Grown
  <2>2. /\ reply' \in Replies /\ reply'.of = r /\ reply'.at = Len(line'[r])
        /\ reply'.says = IF Tip(r).landed THEN "landed" ELSE "barred"
    BY <1>5, <2>1 DEF Replies, Says
  <2>3. pc' = pc
    BY <1>1 DEF LeaderStep
  <2>4. ASSUME NEW p \in Nat, p = reply'.at
        PROVE  ReplyAt(p)'
    BY <1>5, <2>1, <2>2, <2>3, <2>4 DEF ReplyAt
  <2> QED
    BY <1>2, <2>2, <2>4, AnswerInv DEF Is
<1> QED
  BY <1>2, <1>4, <1>5 DEF Answers, Waits

LEMMA HouseBarInv ==
    ASSUME Inv, NEW r \in Ranges, HouseBar(r)
    PROVE  Inv'
<1>1. /\ LeaderStep /\ UNCHANGED <<trimmed, reply, verdict, recovering, gone, mishaps>> /\ Prevent(r)
      /\ recovering /\ ~Tip(r).landed
  BY DEF HouseBar, LeaderStep, driverVars, houseVars
<1>2. r # Coord
  BY <1>1 DEF Inv, Recovers
<1> PICK s \in Entries : Step(r, s)
  BY <1>1, <1>2, PreventStep
<1> QED
  BY <1>1, <1>2, AnswerInv

\* What a resolution makes of a range's state.
LEMMA ResolveFacts ==
    ASSUME NEW e \in Entries, Sound(e), NEW c \in BOOLEAN
    PROVE  /\ Resolve(e, c) \in Entries /\ Sound(Resolve(e, c)) /\ Keeps(e, Resolve(e, c))
           /\ Resolve(e, c).rec = e.rec /\ Resolve(e, c).landed = e.landed
           /\ Resolve(e, c).barred = e.barred
           /\ e.intent => Resolve(e, c).fate = IF c THEN "kept" ELSE "dropped"
           /\ ~e.intent => Resolve(e, c) = e
<1>1. CASE ~e.intent
  BY <1>1 DEF Resolve, Keeps
<1>2. CASE e.intent
  <2> DEFINE f == [e EXCEPT !.intent = FALSE,
                            !.value = IF c THEN "T" ELSE @,
                            !.fate = IF c THEN "kept" ELSE "dropped"]
  <2>1. Resolve(e, c) = f
    BY <1>2 DEF Resolve
  <2>2. /\ f \in Entries /\ f.rec = e.rec /\ f.landed = e.landed /\ f.barred = e.barred
        /\ f.intent = FALSE /\ f.fate = IF c THEN "kept" ELSE "dropped"
        /\ f.value = IF c THEN "T" ELSE e.value
    BY DEF Entries
  <2>3. e.landed /\ ~e.barred /\ e.fate = None /\ e.value = "read"
    BY <1>2 DEF Sound, Entries
  <2>4. f.fate # None
    BY <2>2, NoneIsApart
  <2> HIDE DEF f
  <2>5. Sound(f)
    BY <2>2, <2>3, <2>4 DEF Sound
  <2>6. Keeps(e, f)
    BY <2>2, <2>3, NoneIsApart DEF Keeps, Committed, Is
  <2> QED
    BY <1>2, <2>1, <2>2, <2>5, <2>6
<1> QED
  BY <1>1, <1>2 DEF Entries

LEMMA ResolveStep ==
    ASSUME Inv, LeaderStep, NEW r \in Ranges, NEW c \in BOOLEAN, Apply(r, Resolve(Tip(r), c)),
           c => Won /\ (r = Coord => Committed(Tip(Coord))),
           ~c => Doomed(1) \/ Resolved
    PROVE  \E s \in Entries : Step(r, s) /\ s.rec = Tip(r).rec
<1>1. /\ Typed /\ Tip(r) \in Entries /\ Sound(Tip(r))
      /\ Tip(r).fate = "kept" => Won
      /\ Tip(r).fate = "dropped" => Doomed(1)
      /\ Keeps(Kept(r), Tip(r)) /\ net' \subseteq net
  BY TipFacts DEF Inv, LeaderStep
<1> PICK s \in Entries : s = Resolve(Tip(r), c)
  BY <1>1, ResolveFacts
<1>2. /\ Sound(s) /\ Keeps(Tip(r), s) /\ s.rec = Tip(r).rec /\ s.landed = Tip(r).landed
      /\ s.barred = Tip(r).barred
      /\ Tip(r).intent => s.fate = IF c THEN "kept" ELSE "dropped"
      /\ ~Tip(r).intent => s = Tip(r)
  BY <1>1, ResolveFacts
<1>3. Grown(r, s)
  BY <1>1, Applied
<1>4. Resolved => ~Tip(r).intent
  BY <1>1, NoneIsApart DEF Resolved, Keeps, Sound
<1>5. Fits(r, s)
  BY <1>1, <1>2, <1>4 DEF Fits
<1>6. ASSUME r = Coord PROVE Files(s) /\ Follows(Tip(Coord), s)
  <2>1. CASE ~Tip(r).intent
    BY <1>2, <1>6, <2>1, SameRecord
  <2>2. CASE Tip(r).intent
    <3>1. Tip(Coord).fate # "kept"
      BY <1>1, <1>6, <2>2, NoneIsApart DEF Sound
    <3>2. /\ Committed(s) <=> Committed(Tip(Coord))
          /\ Unset(s) <=> Unset(Tip(Coord))
          /\ \A w \in Standings : Is(s, w) <=> Is(Tip(Coord), w)
          /\ s.fate = "kept" => Is(s, "committed")
      BY <1>2, <1>6, <2>2, <3>1 DEF Committed, Unset, Is
    <3>3. s.fate = "kept" => ~Unset(s)
      BY <3>2 DEF Unset, Is
    <3>4. Files(s)
      BY <1>1, <1>2, <1>6, <3>2, <3>3, TipRecord DEF Files, Sent, Standings
    <3>5. Follows(Tip(Coord), s)
      BY <1>1, <1>2, <1>6, <3>2 DEF Follows, Sent, Standings
    <3> QED
      BY <3>4, <3>5
  <2> QED
    BY <2>1, <2>2
<1> QED
  BY <1>2, <1>3, <1>5, <1>6 DEF Step

LEMMA ResolvePartInv ==
    ASSUME Inv, NEW r \in Ranges, NEW kind \in {"keep", "drop"}, ResolvePart(kind, r)
    PROVE  Inv'
<1>1. LeaderStep /\ Sent(kind, r)
  BY ArrivesIsLeaderStep DEF ResolvePart, driverVars, houseVars
<1>2. /\ UNCHANGED <<trimmed, reply, verdict, recovering, gone, mishaps>>
      /\ Apply(r, Resolve(Tip(r), kind = "keep")) /\ Asks /\ merged \in BOOLEAN
  BY DEF ResolvePart, driverVars, houseVars, Inv, Typed
<1> PICK c \in BOOLEAN : c = (kind = "keep")
  OBVIOUS
<1>3. c => Won /\ (r = Coord => Committed(Tip(Coord)))
  <2>1. ASSUME c PROVE Won
    BY <1>1, <1>2, <2>1 DEF Asks
  <2>2. ASSUME c, r = Coord PROVE Committed(Kept(Coord))
    BY <1>1, <1>2, <2>1, <2>2 DEF Asks, Won
  <2> QED
    BY <2>1, <2>2, CommittedWins
<1>4. ~c => Doomed(1) \/ Resolved
  BY <1>1, <1>2 DEF Asks
<1> PICK s \in Entries : Step(r, s) /\ s.rec = Tip(r).rec
  BY <1>1, <1>2, <1>3, <1>4, ResolveStep
<1> QED
  BY <1>2, AnswerInv DEF Is

LEMMA ConcludeInv ==
    ASSUME Inv, Conclude
    PROVE  Inv'
<1>1. LeaderStep /\ Sent("conclude", Coord) /\ Coord \in Ranges
  BY ArrivesIsLeaderStep, AcrossAssumption DEF Conclude, driverVars, houseVars
<1>2. UNCHANGED <<trimmed, reply, verdict, recovering, gone, mishaps>>
  BY DEF Conclude, driverVars, houseVars
<1>3. CASE UNCHANGED line
  BY <1>1, <1>2, <1>3, IdleStepInv
<1>4. CASE /\ Accepts(Tip(Coord).rec, "committed", FALSE)
           /\ Apply(Coord, Resolve([Tip(Coord) EXCEPT !.rec = [is |-> "committed", of |-> Ranges]], TRUE))
  <2>1. /\ Typed /\ merged /\ Won /\ Everywhere /\ told = "committed" /\ net' \subseteq net
    BY <1>1 DEF Inv, Asks, Won, Typed, LeaderStep
  <2>2. /\ Tip(Coord) \in Entries /\ Sound(Tip(Coord)) /\ Keeps(Kept(Coord), Tip(Coord))
        /\ Tip(Coord).fate = "dropped" => Doomed(1)
        /\ Tip(Coord).rec \in Recs \cup {None} /\ Tip(Coord).landed
    BY <1>1, <2>1, TipFacts DEF Entries, Everywhere, Keeps
  <2> PICK R \in Recs : R = [is |-> "committed", of |-> Ranges]
    BY NoneIsApart DEF Standings
  <2>3. R # None /\ R.is = "committed" /\ R.of = Ranges
    BY NoneIsApart
  <2>7a. Apply(Coord, Resolve([Tip(Coord) EXCEPT !.rec = R], TRUE))
    BY <1>4
  <2> PICK e \in Entries : e = [Tip(Coord) EXCEPT !.rec = R]
    BY <2>2, <2>3 DEF Entries
  <2>4. /\ e.rec = R /\ e.intent = Tip(Coord).intent
        /\ e.landed = Tip(Coord).landed /\ e.barred = Tip(Coord).barred
        /\ e.value = Tip(Coord).value /\ e.fate = Tip(Coord).fate
    BY <2>2 DEF Entries
  <2>5. Sound(e)
    BY <2>2, <2>4 DEF Sound
  <2> PICK c \in BOOLEAN : c = TRUE
    OBVIOUS
  <2> PICK s \in Entries : s = Resolve(e, c)
    BY <2>5, ResolveFacts
  <2>6. /\ Sound(s) /\ Keeps(e, s) /\ s.rec = R
        /\ s.landed = Tip(Coord).landed /\ s.barred = Tip(Coord).barred
        /\ e.intent => s.fate = "kept"
        /\ ~e.intent => s = e
    <3>1. /\ Sound(s) /\ Keeps(e, s) /\ s.rec = e.rec /\ s.landed = e.landed /\ s.barred = e.barred
          /\ e.intent => s.fate = IF c THEN "kept" ELSE "dropped"
          /\ ~e.intent => s = e
      BY <2>5, ResolveFacts
    <3> QED
      BY <2>4, <3>1
  <2>7. /\ Is(s, "committed") /\ Committed(s) /\ ~Unset(s) /\ ~Is(s, "pending") /\ ~Is(s, "staging")
    <3>1. s.rec # None /\ s.rec.is = "committed"
      BY <2>3, <2>6
    <3> QED
      BY <3>1 DEF Is, Committed, Unset
  <2>8. Fits(Coord, s)
    <3>1. Keeps(Tip(Coord), s)
      BY <2>4, <2>6, <2>7 DEF Keeps
    <3>2. s.fate = "dropped" => Doomed(1)
      BY <2>2, <2>4, <2>6
    <3> QED
      BY <2>1, <2>2, <2>6, <3>1, <3>2 DEF Fits
  <2>9. Files(s)
    <3>1. s.rec.of = Ranges
      BY <2>3, <2>6
    <3> QED
      BY <2>1, <2>7, <3>1 DEF Files
  <2>10. Follows(Tip(Coord), s)
    BY <2>1, <2>2 DEF Follows
  <2>11. Grown(Coord, s)
    BY <1>1, <2>1, <2>7a, Applied
  <2>12. Step(Coord, s)
    BY <1>1, <2>8, <2>9, <2>10, <2>11 DEF Step
  <2>13. Decided(Tip(Coord).rec) => Is(Tip(Coord), "committed")
    BY <1>4 DEF Accepts, Decided, Is
  <2>14. Decided(s.rec)
    BY <2>7 DEF Is, Decided
  <2> QED
    BY <1>1, <1>2, <2>12, <2>13, <2>14, AnswerInv
<1> QED
  BY <1>3, <1>4 DEF Conclude

---------------------------------------------------------------------------
(* Housekeeping.                                                           *)

\* Housekeeping, and a copy that lags, only read the record first.
LEMMA HouseReadInv ==
    ASSUME Inv, HouseAbort \/ LaggardAsk \/ \E r \in Ranges : HouseAsk(r)
    PROVE  Inv'
<1>1. /\ LeaderStep /\ UNCHANGED <<line, trimmed, reply, verdict, recovering, gone>>
      /\ mishaps' = mishaps \/ mishaps' = mishaps + 1
  BY DEF HouseAbort, LaggardAsk, HouseAsk, LeaderStep, driverVars
<1>2. Coord \in Ranges /\ Typed
  BY AcrossAssumption DEF Inv
<1> PICK s \in Entries : s = Tip(Coord)
  BY <1>2, TipFacts
<1>3. Step(Coord, s)
  BY <1>1, <1>2, IdleStep
<1>4. Gathers'
  BY <1>1, <1>2, <1>3, StepGathers DEF Decided, Is
<1> QED
  BY <1>1, <1>2, <1>3, <1>4, StepInv DEF Typed

LEMMA HouseResolveInv ==
    ASSUME Inv, NEW r \in Ranges, HouseResolve(r)
    PROVE  Inv'
<1>1. /\ LeaderStep /\ UNCHANGED <<trimmed, reply, recovering, gone, mishaps>>
      /\ verdict[r] # None /\ verdict[r].at = 1
      /\ Apply(r, Resolve(Tip(r), verdict[r].says = "committed"))
      /\ verdict' = [verdict EXCEPT ![r] = None]
  BY DEF HouseResolve, LeaderStep, driverVars
<1>2. Typed /\ VerdictAt(r, 1) /\ Kept(Coord) = L[1]
  BY <1>1 DEF Inv, Verdicts, Answered, Kept, L
<1> PICK c \in BOOLEAN : c = (verdict[r].says = "committed")
  OBVIOUS
<1>3. c => Won /\ Committed(Tip(Coord))
  BY <1>2, CommittedWins DEF VerdictAt
<1>4. ~c => Doomed(1)
  BY <1>2 DEF VerdictAt
<1> PICK s \in Entries : Step(r, s) /\ s.rec = Tip(r).rec
  BY <1>1, <1>3, <1>4, ResolveStep
<1>5. /\ verdict' \in [Ranges -> Replies \cup {None}] /\ verdict'[r] = None
      /\ \A x \in Ranges : x # r => verdict'[x] = verdict[x]
  BY <1>1, <1>2 DEF Typed
<1>6. Verdicts'
  <2>1. Answered(r)'
    BY <1>5 DEF Answered
  <2>2. \A x \in Ranges : x # r => Answered(x)'
    BY <1>5, StepAnswers
  <2> QED
    BY <2>1, <2>2 DEF Verdicts
<1>7. Gathers'
  BY <1>1, StepGathers DEF Is
<1> QED
  BY <1>1, <1>2, <1>5, <1>6, <1>7, StepInv DEF Typed

LEMMA HouseRecoverInv ==
    ASSUME Inv, HouseRecover
    PROVE  Inv'
<1>1. /\ LeaderStep /\ UNCHANGED <<line, trimmed, reply, verdict, gone, mishaps>>
      /\ overdue /\ overdue' = overdue /\ Is(Tip(Coord), "staging") /\ recovering' = TRUE
  BY DEF HouseRecover, LeaderStep, driverVars, Is
<1>2. Coord \in Ranges /\ Typed /\ merged /\ Tip(Coord).landed
  BY <1>1, AcrossAssumption, TipRecord DEF Inv, Typed
<1> PICK s \in Entries : s = Tip(Coord)
  BY <1>2, TipFacts
<1>3. Step(Coord, s)
  BY <1>1, <1>2, IdleStep
<1>4. Gathers'
  BY <1>1, <1>2, <1>3, StepGathers DEF Is, Decided
<1>5. Recovers'
  BY <1>1, <1>2 DEF Recovers, Tip, LeaderStep
<1> QED
  BY <1>1, <1>2, <1>3, <1>4, <1>5, StepInv DEF Typed

LEMMA HouseDecideInv ==
    ASSUME Inv, HouseDecide
    PROVE  Inv'
<1>1. /\ LeaderStep /\ UNCHANGED <<trimmed, reply, verdict, gone, mishaps>>
      /\ recovering /\ Recovered # None /\ recovering' = FALSE
  BY DEF HouseDecide, LeaderStep, driverVars
<1>2. Coord \in Ranges /\ Typed /\ merged /\ overdue /\ Tip(Coord) \in Entries
  BY <1>1, AcrossAssumption, TipFacts DEF Inv, Recovers
<1>3. (Recovered = "committed" /\ Everywhere) \/ (Recovered = "aborted" /\ Refused)
  <2>1. CASE Everywhere
    BY <2>1, WonIsNotDoomed DEF Recovered, Everywhere, Refused
  <2>2. CASE ~Everywhere
    BY <1>1, <2>2 DEF Recovered, Everywhere, Refused
  <2> QED
    BY <2>1, <2>2
<1>4. \E s \in Entries :
         /\ Step(Coord, s)
         /\ Decided(Tip(Coord).rec) => Decided(s.rec)
         /\ Is(s, "committed") => Is(Tip(Coord), "committed") \/ ~Decided(Tip(Coord).rec)
  <2>1. CASE ~Accepts(Tip(Coord).rec, Recovered, FALSE)
    <3>1. UNCHANGED line
      BY <2>1 DEF HouseDecide
    <3> PICK s \in Entries : s = Tip(Coord)
      BY <1>2
    <3>2. Step(Coord, s)
      BY <1>1, <1>2, <3>1, IdleStep
    <3> QED
      BY <3>2 DEF Is, Decided
  <2>2. CASE Accepts(Tip(Coord).rec, Recovered, FALSE) /\ Recovered = "committed" /\ Everywhere
    <3>1. Apply(Coord, [Tip(Coord) EXCEPT !.rec = [is |-> "committed", of |-> Ranges]])
      BY <2>2 DEF HouseDecide
    <3>2. ~Unset(Tip(Coord)) /\ (Decided(Tip(Coord).rec) => Is(Tip(Coord), "committed"))
      BY <2>2 DEF Accepts, Unset, Is, Decided
    <3> PICK s \in Entries : Step(Coord, s) /\ Is(s, "committed")
      BY <1>1, <1>2, <2>2, <3>1, <3>2, CommitStep
    <3> QED
      BY <3>2 DEF Is, Decided
  <2>3. CASE Accepts(Tip(Coord).rec, Recovered, FALSE) /\ Recovered = "aborted" /\ Refused
    <3>1. Apply(Coord, [Tip(Coord) EXCEPT !.rec = [is |-> "aborted", of |-> Ranges]])
      BY <2>3 DEF HouseDecide
    <3>2. ~Is(Tip(Coord), "committed")
      BY <2>3 DEF Accepts, Is, Decided
    <3>3. PICK R \in Recs : R = [is |-> "aborted", of |-> Ranges]
      BY NoneIsApart DEF Standings
    <3> PICK s \in Entries : Step(Coord, s) /\ Is(s, "aborted")
      BY <1>1, <2>3, <3>1, <3>2, <3>3, AbortStep
    <3> QED
      BY DEF Is, Decided
  <2> QED
    BY <1>3, <2>1, <2>2, <2>3
<1> PICK s \in Entries :
         /\ Step(Coord, s)
         /\ Decided(Tip(Coord).rec) => Decided(s.rec)
         /\ Is(s, "committed") => Is(Tip(Coord), "committed") \/ ~Decided(Tip(Coord).rec)
  BY <1>4
<1>5. Gathers'
  BY <1>1, <1>2, StepGathers
<1> QED
  BY <1>1, <1>2, <1>5, StepInv DEF Typed

LEMMA HouseHoldsInv ==
    ASSUME Inv, NEW r \in Ranges, HouseHolds(r)
    PROVE  Inv'
<1>1. /\ LeaderStep /\ UNCHANGED <<line, trimmed, reply, verdict, recovering, mishaps>>
      /\ Decided(Tip(Coord).rec) /\ ~Tip(r).intent /\ Len(line[r]) = 1 /\ gone' = gone \cup {r}
  BY DEF HouseHolds, LeaderStep, driverVars
<1>2. /\ Coord \in Ranges /\ Typed /\ Gathers /\ gone \subseteq Ranges
      /\ Tip(r) = Kept(r) /\ Tip(r) \in Entries /\ Sound(Tip(r))
      /\ Tip(r).fate = "dropped" => Doomed(1)
  BY <1>1, AcrossAssumption, TipFacts DEF Inv, Typed, Tip, Kept
<1> PICK s \in Entries : s = Tip(Coord)
  BY <1>2, TipFacts
<1>3. Step(Coord, s)
  BY <1>1, <1>2, IdleStep
<1>4. Is(Tip(Coord), "committed") => Kept(r).fate = "kept"
  <2> SUFFICES ASSUME Is(Tip(Coord), "committed")
               PROVE  Kept(r).fate = "kept"
    OBVIOUS
  <2>1. Everywhere /\ Committed(Tip(Coord))
    BY TipRecord DEF Committed
  <2>2. Kept(r).fate # None
    BY <1>1, <1>2, <2>1 DEF Everywhere, Sound
  <2>3. ~Doomed(1)
    <3>1. Len(L) \in 1 .. Len(L) /\ Tip(Coord) = L[Len(L)] /\ merged \in BOOLEAN
      BY <1>2, Entry DEF L, Tip, Typed
    <3>2. CASE merged
      BY <2>1, <3>2, WonIsNotDoomed DEF Won
    <3>3. CASE ~merged
      BY <2>1, <3>1, <3>3 DEF Doomed
    <3> QED
      BY <3>1, <3>2, <3>3
  <2> QED
    BY <1>2, <2>2, <2>3 DEF Entries
<1>5. Gathers'
  BY <1>1, <1>2, <1>4 DEF Gathers, Tip, Kept
<1> QED
  BY <1>1, <1>2, <1>3, <1>5, StepInv DEF Typed

LEMMA HouseForgetInv ==
    ASSUME Inv, HouseForget, Lingers = FALSE
    PROVE  Inv'
<1>1. /\ LeaderStep /\ UNCHANGED <<trimmed, reply, verdict, recovering, mishaps>>
      /\ Decided(Tip(Coord).rec) /\ Tip(Coord).rec.of \subseteq gone
      /\ Apply(Coord, [Tip(Coord) EXCEPT !.rec = None]) /\ gone' = {} /\ net' = {}
  BY DEF HouseForget, LeaderStep, driverVars
<1>2. /\ Coord \in Ranges /\ Typed /\ Gathers
      /\ Tip(Coord) \in Entries /\ Keeps(Kept(Coord), Tip(Coord))
  BY AcrossAssumption, TipFacts DEF Inv
<1> PICK s \in Entries :
              /\ Grown(Coord, s)
              /\ s.rec = None /\ s.fate = Tip(Coord).fate /\ s.landed = Tip(Coord).landed
              /\ (Is(Tip(Coord), "committed") => Committed(s)) => Fits(Coord, s)
  BY <1>1, RecordStep
<1>3. Is(Tip(Coord), "committed") => Resolved /\ Tip(Coord).fate = "kept"
  <2> SUFFICES ASSUME Is(Tip(Coord), "committed")
               PROVE  Resolved /\ Tip(Coord).fate = "kept"
    OBVIOUS
  <2>1. Tip(Coord).rec.of = Ranges
    BY TipRecord
  <2>2. Resolved
    BY <1>1, <1>2, <2>1 DEF Gathers, Resolved
  <2>3. Kept(Coord).fate = "kept"
    BY <1>2, <2>2 DEF Resolved
  <2> QED
    BY <1>2, <2>2, <2>3, NoneIsApart DEF Keeps
<1>4. /\ Unset(s) /\ ~Is(s, "committed") /\ ~Is(s, "pending") /\ ~Is(s, "staging")
      /\ Committed(s) <=> s.fate = "kept"
  BY DEF Unset, Is, Committed
<1>5. /\ Is(Tip(Coord), "committed") \/ Unset(Tip(Coord))
      /\ Committed(Tip(Coord)) <=> s.fate = "kept"
  BY <1>1, <1>3 DEF Decided, Is, Unset, Committed
<1>6. Fits(Coord, s)
  BY <1>3, <1>4
<1>7. Files(s)
  <2>1. s.fate = "kept" => Resolved
    BY <1>3, TipRecord
  <2>2. merged /\ s.landed => Committed(s) \/ Refused
    BY <1>4, <1>5, TipRecord DEF Committed
  <2> QED
    BY <1>1, <1>4, <1>5, <2>1, <2>2, TipRecord DEF Files
<1>8. Follows(Tip(Coord), s)
  BY <1>1, <1>4, <1>5 DEF Follows
<1>9. Step(Coord, s)
  BY <1>1, <1>6, <1>7, <1>8 DEF Step
<1>10. Gathers'
  <2>1. Tip(Coord)' = s
    BY <1>1, <1>2, GrownKeeps DEF LeaderStep
  <2> QED
    BY <1>1, <1>4, <2>1 DEF Gathers
<1> QED
  BY <1>1, <1>2, <1>9, <1>10, StepInv DEF Typed

---------------------------------------------------------------------------
(* The ranges around T.                                                    *)

LEMMA WriteInv ==
    ASSUME Inv, NEW r \in Ranges, Write(r)
    PROVE  Inv'
<1>1. /\ LeaderStep /\ UNCHANGED <<trimmed, reply, verdict, recovering, gone, mishaps>>
      /\ ~Tip(r).intent /\ Apply(r, [Tip(r) EXCEPT !.value = "other"])
  BY DEF Write, LeaderStep, driverVars, houseVars
<1>2. /\ Typed /\ Tip(r) \in Entries /\ Sound(Tip(r))
      /\ Tip(r).fate = "kept" => Won
      /\ Tip(r).fate = "dropped" => Doomed(1)
  BY TipFacts DEF Inv
<1> PICK s \in Entries : s = [Tip(r) EXCEPT !.value = "other"]
  BY <1>2 DEF Entries
<1>3. /\ s.rec = Tip(r).rec /\ s.landed = Tip(r).landed /\ s.barred = Tip(r).barred
      /\ s.fate = Tip(r).fate /\ s.intent = Tip(r).intent
  BY <1>2 DEF Entries
<1>4. Grown(r, s)
  BY <1>1, <1>2, Applied
<1>5. Fits(r, s)
  <2>1. Sound(s) /\ Keeps(Tip(r), s)
    BY <1>1, <1>2, <1>3 DEF Sound, Keeps, Committed, Is
  <2> QED
    BY <1>2, <1>3, <2>1 DEF Fits
<1>6. r = Coord => Files(s) /\ Follows(Tip(Coord), s)
  BY <1>1, <1>3, SameRecord
<1>7. Step(r, s)
  BY <1>1, <1>4, <1>5, <1>6 DEF Step
<1> QED
  BY <1>1, <1>3, <1>7, AnswerInv DEF Is

LEMMA PruneInv ==
    ASSUME Inv, NEW r \in Ranges, Prune(r)
    PROVE  Inv'
<1>1. /\ LeaderStep /\ UNCHANGED <<line, reply, verdict, recovering, gone, mishaps>>
      /\ trimmed' = [trimmed EXCEPT ![r] = TRUE]
  BY DEF Prune, LeaderStep, driverVars, houseVars
<1>2. Typed
  BY DEF Inv
<1> PICK s \in Entries : s = Tip(r)
  BY TipFacts
<1>3. Step(r, s)
  BY <1>1, IdleStep
<1>4. Gathers'
  BY <1>1, <1>3, StepGathers DEF Is, Decided
<1>5. trimmed' \in [Ranges -> BOOLEAN]
  BY <1>1, <1>2 DEF Typed
<1> QED
  BY <1>1, <1>2, <1>3, <1>4, <1>5, StepInv DEF Typed

---------------------------------------------------------------------------
(* The driver's steps: no line changes.                                    *)

Fresh(kind, r) == Ask(kind, r) \in net' /\ ~Sent(kind, r)

QuietStep ==
    /\ UNCHANGED <<line, trimmed, merged, verdict, recovering, gone, mishaps>>
    /\ overdue' \in BOOLEAN /\ (overdue => overdue')
    /\ told' = told \/ told = None
    /\ looked => looked'
    /\ pc' = "idle" => pc = "idle" /\ net' = net
    /\ pc' = "opening" => pc \in {"idle", "opening"}
    /\ pc \in {"deciding", "done"} => pc' \in {"deciding", "done"} /\ missed' = missed
    /\ missed \subseteq missed'

\* What the driver may come to ask, and when.
NewAsks ==
    /\ Fresh("open", Coord) => pc = "idle" /\ pc' = "opening" /\ ~merged
    /\ Fresh("begin", Coord) => pc = "idle" /\ pc' = "preparing" /\ merged
    /\ \A r \in Ranges : Fresh("prepare", r) =>
          /\ pc \in {"idle", "opening"} /\ pc' = "preparing" /\ Ask("open", Coord) \notin net'
          /\ r = Coord => ~merged
    /\ Fresh("commit", Coord) =>
          pc = "preparing" /\ missed = {} /\ missed' = {} /\ pc' = "deciding" /\ ~merged /\ Everywhere
    /\ Fresh("abort", Coord) => (merged => Refused) /\ (~merged => missed' # {})
    /\ \A r \in Ranges : Fresh("keep", r) => Won /\ (r = Coord => ~merged)
    /\ Fresh("conclude", Coord) => Won /\ merged /\ told' = "committed"
    /\ \A r \in Ranges : Fresh("drop", r) => Doomed(1)' \/ Resolved
    /\ Fresh("settle", Coord) => merged /\ pc = "preparing" /\ ~overdue
    /\ Fresh("lookup", Coord) => merged /\ looked'
    /\ \A r \in Ranges : Fresh("bar", r) => merged /\ Ask("begin", Coord) \notin net' /\ pc # "idle"
    /\ Ask("begin", Coord) \in net' => pc' \in {"preparing", "asking", "done"}
    /\ Ask("open", Coord) \in net' => pc' \in {"opening", "done"}

LEMMA Unmoved ==
    ASSUME line' = line, merged' = merged
    PROVE  /\ (Everywhere' <=> Everywhere) /\ (Refused' <=> Refused)
           /\ (Resolved' <=> Resolved) /\ (Won' <=> Won)
           /\ \A r \in Ranges : Kept(r)' = Kept(r) /\ Tip(r)' = Tip(r)
           /\ L' = L
  BY DEF Everywhere, Refused, Resolved, Won, Kept, Tip, L

LEMMA StillDoomed ==
    ASSUME Inv, QuietStep, NewAsks
    PROVE  \A p \in Nat : Doomed(p) => Doomed(p)'
<1> SUFFICES ASSUME NEW p \in Nat, Doomed(p)
             PROVE  Doomed(p)'
  OBVIOUS
<1>1. /\ line' = line /\ merged' = merged /\ merged \in BOOLEAN /\ L' = L /\ (Refused' <=> Refused)
      /\ pc # "idle" /\ pc' # "idle"
  BY Unmoved DEF QuietStep, Inv, Typed, Doomed
<1>2. CASE merged
  <2>1. Sent("begin", Coord)' => Sent("begin", Coord)
    BY <1>1 DEF NewAsks, Fresh, Sent
  <2> QED
    BY <1>1, <1>2, <2>1 DEF Doomed
<1>3. CASE ~merged
  <2>1. Sent("open", Coord)' => Sent("open", Coord)
    BY <1>1 DEF NewAsks, Fresh, Sent
  <2>2. missed # {} => missed' # {}
    BY DEF QuietStep
  <2>3. pc \in {"deciding", "done"} /\ ~Sent("commit", Coord) =>
           pc' \in {"deciding", "done"} /\ ~Sent("commit", Coord)'
    BY DEF QuietStep, NewAsks, Fresh, Sent
  <2> QED
    BY <1>1, <1>3, <2>1, <2>2, <2>3 DEF Doomed
<1> QED
  BY <1>1, <1>2, <1>3

LEMMA QuietInv ==
    ASSUME Inv, QuietStep, NewAsks, Drives', Replied', net' \subseteq [kind : Kinds, range : Ranges],
           pc' \in Places, known' \subseteq Ranges, missed' \subseteq Ranges,
           reply' \in Replies \cup {None}, told' \in {None, "committed", "aborted", "doubt"},
           looked' \in BOOLEAN
    PROVE  Inv'
<1>1. /\ (Everywhere' <=> Everywhere) /\ (Refused' <=> Refused)
      /\ (Resolved' <=> Resolved) /\ (Won' <=> Won)
      /\ \A r \in Ranges : Kept(r)' = Kept(r) /\ Tip(r)' = Tip(r)
      /\ L' = L
  BY Unmoved DEF QuietStep
<1>2. \A p \in Nat : Doomed(p) => Doomed(p)'
  BY StillDoomed
<1>3. /\ Typed /\ Coord \in Ranges /\ line' = line /\ merged' = merged /\ merged \in BOOLEAN
      /\ Asks /\ Drives /\ Records /\ gone \subseteq Ranges
  BY AcrossAssumption DEF Inv, QuietStep, Typed
<1>4. Typed'
  BY <1>3 DEF Typed, QuietStep
<1>5. Lines' /\ Fates'
  <2>1. Lines'
    BY <1>3 DEF Inv, Lines
  <2>2. Doomed(1) => Doomed(1)'
    BY <1>2
  <2> QED
    BY <1>1, <1>3, <2>1, <2>2 DEF Inv, Fates
<1>6. Records'
  <2> SUFFICES ASSUME NEW k \in 1 .. Len(L)
               PROVE  Record(k)'
    BY <1>1 DEF Records
  <2>1. Record(k)
    BY <1>3 DEF Records
  <2>2. Committed(L[k]) =>
          /\ Everywhere'
          /\ merged => overdue' \/ told' = "committed"
          /\ ~merged => pc' \in {"deciding", "done"} /\ ~Sent("commit", Coord)' /\ missed' = {}
    <3>1. told = "committed" => told' = "committed"
      BY NoneIsApart DEF QuietStep
    <3>2. ~merged /\ Committed(L[k]) => pc \in {"deciding", "done"} /\ ~Sent("commit", Coord) /\ missed = {}
      BY <2>1 DEF Record
    <3>3. ~merged /\ Committed(L[k]) => pc' \in {"deciding", "done"} /\ ~Sent("commit", Coord)' /\ missed' = {}
      BY <3>2 DEF QuietStep, NewAsks, Fresh, Sent
    <3> QED
      BY <1>1, <2>1, <3>1, <3>3 DEF Record, QuietStep
  <2>3. Sent("settle", Coord)' => ~(L[k].fate = "kept" /\ Unset(L[k]))
    <3>1. CASE Sent("settle", Coord)
      BY <2>1, <3>1 DEF Record
    <3>2. CASE Fresh("settle", Coord)
      <4>1. merged /\ ~overdue /\ told # "committed"
        BY <1>3, <3>2, NoneIsApart DEF NewAsks, Drives
      <4>2. ~Committed(L[k])
        BY <2>1, <4>1 DEF Record
      <4> QED
        BY <4>2 DEF Committed
    <3> QED
      BY <3>1, <3>2 DEF Fresh, Sent
  <2> QED
    BY <1>1, <1>3, <2>1, <2>2, <2>3 DEF Record
<1>7. Asks'
  <2>1. merged => /\ ~Sent("open", Coord)' /\ ~Sent("commit", Coord)'
                  /\ ~Sent("prepare", Coord)' /\ ~Sent("keep", Coord)'
    BY <1>3 DEF Asks, NewAsks, Fresh, Sent
  <2>2. ~merged => /\ ~Sent("begin", Coord)' /\ ~Sent("conclude", Coord)'
                   /\ ~Sent("settle", Coord)' /\ ~Sent("lookup", Coord)'
                   /\ \A r \in Ranges : ~Sent("bar", r)'
    BY <1>3 DEF Asks, NewAsks, Fresh, Sent
  <2>3. pc' = "idle" => net' = {} /\ ~Tip(Coord)'.barred
    BY <1>1, <1>3 DEF Asks, QuietStep
  <2>4. (pc \in {"idle", "opening"} \/ Sent("open", Coord))' =>
          \A r \in Ranges : ~Tip(r)'.landed /\ ~Sent("prepare", r)'
    <3>1. ASSUME (pc \in {"idle", "opening"} \/ Sent("open", Coord))'
          PROVE  pc \in {"idle", "opening"} \/ Sent("open", Coord)
      BY <3>1 DEF QuietStep, NewAsks, Fresh, Sent
    <3>2. ASSUME (pc \in {"idle", "opening"} \/ Sent("open", Coord))', NEW r \in Ranges
          PROVE  ~Sent("prepare", r)'
      BY <1>3, <3>1, <3>2 DEF NewAsks, Fresh, Sent, Asks
    <3> QED
      BY <1>1, <1>3, <3>1, <3>2 DEF Asks
  <2>5. \A r \in Ranges : Sent("prepare", r)' => ~Tip(r)'.landed
    BY <1>1, <1>3 DEF Asks, NewAsks, Fresh, Sent
  <2>6. Sent("begin", Coord)' => /\ ~Tip(Coord)'.landed /\ ~Tip(Coord)'.barred
                                 /\ ~Sent("bar", Coord)'
                                 /\ pc' \in {"preparing", "asking", "done"}
    <3>1. CASE Sent("begin", Coord)
      BY <1>1, <1>3, <3>1 DEF Asks, NewAsks, Fresh, Sent
    <3>2. CASE Fresh("begin", Coord)
      BY <1>1, <1>3, <3>2 DEF Asks, NewAsks, Fresh, Sent
    <3> QED
      BY <3>1, <3>2 DEF Fresh, Sent
  <2>7. /\ Sent("open", Coord)' => pc' \in {"opening", "done"}
        /\ Sent("commit", Coord)' => Everywhere' /\ missed' = {} /\ pc' \in {"deciding", "done"}
        /\ Sent("abort", Coord)' => (merged => Refused') /\ (~merged => missed' # {})
    BY <1>1, <1>3 DEF Asks, NewAsks, Fresh, Sent, QuietStep
  <2>8. /\ \A r \in Ranges : Sent("keep", r)' => Won'
        /\ Sent("conclude", Coord)' => Won' /\ told' = "committed"
        /\ Sent("lookup", Coord)' => looked'
    BY <1>1, <1>3, NoneIsApart DEF Asks, NewAsks, Fresh, Sent, QuietStep
  <2>9. \A r \in Ranges : Sent("drop", r)' => Doomed(1)' \/ Resolved'
    <3>1. Doomed(1) => Doomed(1)'
      BY <1>2
    <3> QED
      BY <1>1, <1>3, <3>1 DEF Asks, NewAsks, Fresh, Sent
  <2> QED
    BY <1>3, <2>1, <2>2, <2>3, <2>4, <2>5, <2>6, <2>7, <2>8, <2>9 DEF Asks
<1>8. Verdicts'
  <2> SUFFICES ASSUME NEW r \in Ranges, verdict[r] # None, NEW p \in Nat, p = verdict[r].at
               PROVE  VerdictAt(r, p)'
    BY DEF Verdicts, Answered, QuietStep
  <2>1. VerdictAt(r, p)
    BY DEF Inv, Verdicts, Answered
  <2> QED
    BY <1>1, <1>2, <2>1 DEF VerdictAt, QuietStep
<1>9. Recovers' /\ Gathers'
  BY <1>1, <1>3 DEF Inv, Recovers, Gathers, QuietStep
<1> QED
  BY <1>4, <1>5, <1>6, <1>7, <1>8, <1>9 DEF Inv

\* Two asks are one when they say the same of the same range.
LEMMA AskIs ==
    ASSUME NEW k1, NEW r1, NEW k2, NEW r2
    PROVE  (Ask(k1, r1) = Ask(k2, r2)) <=> (k1 = k2 /\ r1 = r2)
  BY DEF Ask

\* What the driver's rounds hold.
LEMMA RoundAsks ==
    ASSUME Typed
    PROVE  /\ Round \subseteq [kind : Kinds, range : Ranges]
           /\ Concluding \subseteq [kind : Kinds, range : Ranges]
           /\ Keeping \subseteq [kind : Kinds, range : Ranges]
           /\ Dropping \subseteq [kind : Kinds, range : Ranges]
           /\ \A kind, r : Ask(kind, r) \in Round =>
                 \/ kind = "prepare" /\ (r = Coord => ~merged)
                 \/ kind = "begin" /\ r = Coord /\ merged
           /\ \A kind, r : Ask(kind, r) \in Concluding =>
                 (kind = "conclude" /\ r = Coord) \/ (kind = "keep" /\ r # Coord)
           /\ \A kind, r : Ask(kind, r) \in Keeping => kind = "keep"
           /\ \A kind, r : Ask(kind, r) \in Dropping => kind = "drop"
<1>1. Coord \in Ranges /\ merged \in BOOLEAN
  BY AcrossAssumption DEF Typed
<1>2. /\ Round \subseteq [kind : Kinds, range : Ranges]
      /\ Concluding \subseteq [kind : Kinds, range : Ranges]
      /\ Keeping \subseteq [kind : Kinds, range : Ranges]
      /\ Dropping \subseteq [kind : Kinds, range : Ranges]
  BY <1>1 DEF Round, Concluding, Keeping, Dropping, Ask, Kinds
<1>3. ASSUME NEW kind, NEW r, Ask(kind, r) \in Round
      PROVE  \/ kind = "prepare" /\ (r = Coord => ~merged)
             \/ kind = "begin" /\ r = Coord /\ merged
  BY <1>1, <1>3 DEF Round, Ask
<1>4. ASSUME NEW kind, NEW r, Ask(kind, r) \in Concluding
      PROVE  (kind = "conclude" /\ r = Coord) \/ (kind = "keep" /\ r # Coord)
  BY <1>1, <1>4 DEF Concluding, Ask
<1>5. ASSUME NEW kind, NEW r, Ask(kind, r) \in Keeping PROVE kind = "keep"
  BY <1>5 DEF Keeping, Ask
<1>6. ASSUME NEW kind, NEW r, Ask(kind, r) \in Dropping PROVE kind = "drop"
  BY <1>6 DEF Dropping, Ask
<1> QED
  BY <1>2, <1>3, <1>4, <1>5, <1>6

\* An answer is on its way only while the driver waits for one.
LEMMA ReplyWaits ==
    ASSUME Inv, reply # None
    PROVE  pc \in {"opening", "asking", "barring", "deciding"}
<1>1. reply.at \in Nat
  BY DEF Inv, Typed, Replies
<1> QED
  BY <1>1 DEF Inv, Replied, ReplyAt

LEMMA StartInv ==
    ASSUME Inv, Start
    PROVE  Inv'
<1>1. /\ Typed /\ Coord \in Ranges /\ merged \in BOOLEAN /\ Asks /\ Drives /\ pc = "idle" /\ net = {}
      /\ reply = None /\ ~looked /\ told = None
  BY AcrossAssumption, ReplyWaits DEF Inv, Typed, Start, Asks, Drives
<1>2. /\ UNCHANGED <<line, trimmed, merged, known, missed, reply, told, looked, overdue, verdict,
                     recovering, gone, mishaps>>
      /\ pc' = IF merged THEN "preparing" ELSE "opening"
      /\ net' = net \cup IF merged THEN Round ELSE {Ask("open", Coord)}
  BY DEF Start, houseVars
<1>3. QuietStep
  BY <1>1, <1>2 DEF QuietStep, Typed
<1>4. NewAsks
  <2>1. CASE merged
    <3>1. \A kind, r : Ask(kind, r) \in net' =>
              (kind = "prepare" /\ r # Coord) \/ (kind = "begin" /\ r = Coord)
      BY <1>1, <1>2, <2>1, RoundAsks
    <3> QED
      BY <1>1, <1>2, <2>1, <3>1 DEF NewAsks, Fresh
  <2>2. CASE ~merged
    <3>1. \A kind, r : Ask(kind, r) \in net' => kind = "open"
      BY <1>1, <1>2, <2>2 DEF Ask
    <3> QED
      BY <1>1, <1>2, <2>2, <3>1 DEF NewAsks, Fresh
  <2> QED
    BY <2>1, <2>2
<1>5. Drives'
  BY <1>1, <1>2, Unmoved, NoneIsApart DEF Drives, Typed
<1>6. Replied'
  BY <1>1, <1>2 DEF Replied
<1>7. net' \subseteq [kind : Kinds, range : Ranges]
  BY <1>1, <1>2, RoundAsks DEF Ask, Kinds
<1> QED
  BY <1>1, <1>2, <1>3, <1>4, <1>5, <1>6, <1>7, QuietInv DEF Typed, Places

LEMMA PreparedInv ==
    ASSUME Inv, NEW r \in Ranges, HearPrepared(r) \/ MissPrepared(r)
    PROVE  Inv'
<1>1. /\ Typed /\ Drives /\ pc = "preparing" /\ reply = None /\ told = None
  BY ReplyWaits DEF Inv, Drives, HearPrepared, MissPrepared
<1>2. /\ UNCHANGED <<line, trimmed, net, pc, merged, reply, told, looked, overdue, verdict, recovering,
                     gone, mishaps>>
      /\ missed \subseteq missed' /\ missed' \subseteq Ranges
      /\ known' \subseteq Ranges /\ \A x \in known' : Kept(x).landed
  BY <1>1 DEF HearPrepared, MissPrepared, houseVars, Typed, Drives
<1>3. QuietStep
  BY <1>1, <1>2 DEF QuietStep, Typed
<1>4. NewAsks
  BY <1>1, <1>2 DEF NewAsks, Fresh, Sent, Inv, Asks
<1>5. Drives'
  BY <1>1, <1>2, Unmoved, NoneIsApart DEF Drives, Typed, Sent
<1>6. Replied'
  BY <1>1, <1>2 DEF Replied
<1> QED
  BY <1>1, <1>2, <1>3, <1>4, <1>5, <1>6, QuietInv DEF Typed

LEMMA FinishInv ==
    ASSUME Inv, Finish
    PROVE  Inv'
<1>1. /\ Typed /\ Asks /\ Drives /\ pc = "preparing" /\ reply = None /\ told = None
      /\ known \cup missed = Ranges /\ ~merged /\ Coord \in Ranges
  BY ReplyWaits, AcrossAssumption DEF Inv, Drives, Finish
<1>2. /\ UNCHANGED <<line, trimmed, merged, known, missed, reply, told, looked, overdue, verdict,
                     recovering, gone, mishaps>>
      /\ pc' = "deciding"
      /\ net' = net \cup {Ask(IF missed = {} THEN "commit" ELSE "abort", Coord)}
  BY DEF Finish, houseVars
<1>3. QuietStep
  BY <1>1, <1>2 DEF QuietStep, Typed
<1>4. \A kind, r : Ask(kind, r) \in net' =>
          \/ Sent(kind, r)
          \/ kind = "commit" /\ missed = {}
          \/ kind = "abort" /\ missed # {}
  BY <1>2 DEF Sent, Ask
<1>5. NewAsks
  <2>1. missed = {} => Everywhere
    BY <1>1 DEF Drives, Everywhere
  <2>2. ~Sent("begin", Coord) /\ ~Sent("open", Coord)
    BY <1>1 DEF Asks
  <2> QED
    BY <1>1, <1>2, <1>4, <2>1, <2>2 DEF NewAsks, Fresh
<1>6. Drives'
  <2>1. ~Sent("begin", Coord)'
    BY <1>1, <1>4 DEF Asks, Sent
  <2> QED
    BY <1>1, <1>2, <2>1, Unmoved, NoneIsApart DEF Drives, Typed
<1>7. Replied'
  BY <1>1, <1>2 DEF Replied
<1>8. net' \subseteq [kind : Kinds, range : Ranges]
  BY <1>1, <1>2 DEF Typed, Ask, Kinds
<1> QED
  BY <1>1, <1>2, <1>3, <1>5, <1>6, <1>7, <1>8, QuietInv DEF Typed, Places

\* Every part is known to be held: T has won, the merged way.
LEMMA KnownWins ==
    ASSUME Inv, merged, known = Ranges
    PROVE  Won
  BY DEF Inv, Drives, Won, Everywhere

\* The driver tells the caller that T is committed, and asks for the rest.
LEMMA TellCommitted ==
    ASSUME Inv, merged, Won, pc \notin {"idle", "done"}, UNCHANGED <<line, trimmed, merged, known, missed,
               looked, overdue, verdict, recovering, gone, mishaps>>,
           Tell("committed"), net' = net \cup Concluding \/ net' = net, reply' = None
    PROVE  Inv'
<1>1. /\ Typed /\ Asks /\ Drives /\ Coord \in Ranges /\ told = None
  BY AcrossAssumption DEF Inv, Drives
<1>2. told' = "committed" /\ pc' = "done"
  BY DEF Tell
<1>3. QuietStep
  BY <1>1, <1>2 DEF QuietStep, Typed
<1>4. \A kind, r : Ask(kind, r) \in net' =>
          \/ Sent(kind, r)
          \/ (kind = "conclude" /\ r = Coord) \/ (kind = "keep" /\ r # Coord)
  BY <1>1, RoundAsks DEF Sent
<1>5. NewAsks
  BY <1>2, <1>4 DEF NewAsks, Fresh
<1>6. Drives'
  BY <1>1, <1>2, Unmoved, NoneIsApart DEF Drives, Typed
<1>7. Replied'
  BY DEF Replied
<1>8. net' \subseteq [kind : Kinds, range : Ranges]
  BY <1>1, RoundAsks DEF Typed
<1> QED
  BY <1>1, <1>2, <1>3, <1>5, <1>6, <1>7, <1>8, QuietInv DEF Typed, Places

\* A part heard to land leaves no ask to begin T.
LEMMA LandedIsBegun ==
    ASSUME Inv, Coord \in known
    PROVE  ~Sent("begin", Coord)
<1>1. Coord \in Ranges /\ Kept(Coord).landed
  BY AcrossAssumption DEF Inv, Drives
<1>2. Tip(Coord).landed
  BY <1>1, TipFacts DEF Keeps
<1> QED
  BY <1>2 DEF Inv, Asks

LEMMA FinishParallelInv ==
    ASSUME Inv, FinishParallel
    PROVE  Inv'
<1>1. /\ Typed /\ Asks /\ Drives /\ pc = "preparing" /\ reply = None /\ told = None /\ ~looked
      /\ known \cup missed = Ranges /\ merged /\ Coord \in Ranges
  BY ReplyWaits, AcrossAssumption DEF Inv, Drives, FinishParallel
<1>2. /\ UNCHANGED <<line, trimmed, merged, known, missed, reply, overdue, verdict,
                     recovering, gone, mishaps>>
  BY DEF FinishParallel, houseVars
<1>3. CASE missed = {} /\ Tell("committed") /\ net' = net \cup Concluding /\ UNCHANGED looked
  <2>1. known = Ranges
    BY <1>1, <1>3
  <2>2. Won
    BY <1>1, <2>1, KnownWins
  <2> QED
    BY <1>1, <1>2, <1>3, <2>2, TellCommitted
<1>4. CASE Coord \in known /\ pc' = "recovering" /\ UNCHANGED <<net, told, looked>>
  <2>1. ~Sent("begin", Coord)
    BY <1>4, LandedIsBegun
  <2>2. QuietStep
    BY <1>1, <1>2, <1>4 DEF QuietStep, Typed
  <2>3. NewAsks
    BY <1>1, <1>4, <2>1 DEF NewAsks, Fresh, Sent, Asks
  <2>4. Drives'
    BY <1>1, <1>2, <1>4, <2>1, Unmoved, NoneIsApart DEF Drives, Typed, Sent
  <2>5. Replied'
    BY <1>1, <1>2 DEF Replied
  <2> QED
    BY <1>1, <1>2, <1>4, <2>2, <2>3, <2>4, <2>5, QuietInv DEF Typed, Places
<1>5. CASE /\ pc' = "asking" /\ looked' = overdue /\ UNCHANGED told
           /\ net' = net \cup {Ask(IF overdue THEN "lookup" ELSE "settle", Coord)}
  <2>1. QuietStep
    BY <1>1, <1>2, <1>5 DEF QuietStep, Typed
  <2>2. \A kind, r : Ask(kind, r) \in net' =>
          \/ Sent(kind, r)
          \/ kind = "lookup" /\ overdue
          \/ kind = "settle" /\ ~overdue
    BY <1>5 DEF Sent, Ask
  <2>3. NewAsks
    BY <1>1, <1>5, <2>2 DEF NewAsks, Fresh, Asks
  <2>4. Drives'
    BY <1>1, <1>2, <1>5, Unmoved, NoneIsApart DEF Drives, Typed
  <2>5. Replied'
    BY <1>1, <1>2 DEF Replied
  <2>6. net' \subseteq [kind : Kinds, range : Ranges]
    BY <1>1, <1>5 DEF Typed, Ask, Kinds
  <2> QED
    BY <1>1, <1>2, <1>5, <2>1, <2>3, <2>4, <2>5, <2>6, QuietInv DEF Typed, Places
<1> QED
  BY <1>3, <1>4, <1>5 DEF FinishParallel

LEMMA RecoverInv ==
    ASSUME Inv, Recover
    PROVE  Inv'
<1>1. /\ Typed /\ Asks /\ Drives /\ pc = "recovering" /\ reply = None /\ told = None
      /\ merged /\ Coord \in Ranges /\ ~Sent("begin", Coord)
  BY ReplyWaits, AcrossAssumption DEF Inv, Drives, Recover
<1>2. /\ UNCHANGED <<line, trimmed, merged, known, missed, reply, looked, overdue, verdict,
                     recovering, gone, mishaps>>
  BY DEF Recover, houseVars
<1>3. CASE known = Ranges /\ Tell("committed") /\ net' = net \cup Concluding
  BY <1>1, <1>2, <1>3, KnownWins, TellCommitted
<1>4. ASSUME NEW r \in Ranges \ known, pc' = "barring", net' = net \cup {Ask("bar", r)}, UNCHANGED told
      PROVE  Inv'
  <2>1. QuietStep
    BY <1>1, <1>2, <1>4 DEF QuietStep, Typed
  <2>2. \A kind, x : Ask(kind, x) \in net' => Sent(kind, x) \/ kind = "bar"
    BY <1>4 DEF Sent, Ask
  <2>3. NewAsks
    BY <1>1, <1>4, <2>2 DEF NewAsks, Fresh, Asks
  <2>4. Drives'
    <3>1. ~Sent("begin", Coord)'
      BY <1>1, <2>2 DEF Sent
    <3> QED
      BY <1>1, <1>2, <1>4, <3>1, Unmoved, NoneIsApart DEF Drives, Typed
  <2>5. Replied'
    BY <1>1, <1>2 DEF Replied
  <2>6. net' \subseteq [kind : Kinds, range : Ranges]
    BY <1>1, <1>4 DEF Typed, Ask, Kinds
  <2> QED
    BY <1>1, <1>2, <1>4, <2>1, <2>3, <2>4, <2>5, <2>6, QuietInv DEF Typed, Places
<1> QED
  BY <1>3, <1>4 DEF Recover

LEMMA LapseInv ==
    ASSUME Inv, Lapse
    PROVE  Inv'
<1>1. /\ Typed /\ Asks /\ Drives /\ Replied
      /\ UNCHANGED <<line, trimmed, net, pc, merged, known, missed, reply, told, looked, verdict,
                     recovering, gone, mishaps>>
      /\ overdue' = TRUE
  BY DEF Inv, Lapse, driverVars
<1>2. QuietStep
  BY <1>1 DEF QuietStep
<1>3. NewAsks
  BY <1>1 DEF NewAsks, Fresh, Sent, Asks
<1>4. \A p \in Nat : Doomed(p) => Doomed(p)'
  BY <1>2, <1>3, StillDoomed
<1>5. Doomed(1) => Doomed(1)'
  BY <1>4
<1>6. Drives'
  BY <1>1, <1>5, Unmoved DEF Drives, Sent, Typed
<1>7. Replied'
  <2> SUFFICES ASSUME reply # None, NEW p \in Nat, p = reply.at
               PROVE  ReplyAt(p)'
    BY <1>1 DEF Replied
  <2>1. ReplyAt(p)
    BY <1>1 DEF Replied
  <2> QED
    BY <1>1, <1>4, <1>5, <2>1, Unmoved DEF ReplyAt, Sent
<1> QED
  BY <1>1, <1>2, <1>3, <1>6, <1>7, QuietInv DEF Typed

\* The driver takes an answer and goes on: it waits, decides or is done.
LEMMA HeardInv ==
    ASSUME Inv, pc \in {"opening", "asking", "barring", "deciding"}, reply' = None,
           UNCHANGED <<line, trimmed, merged, missed, looked, overdue, verdict, recovering, gone, mishaps>>,
           NewAsks, net' \subseteq [kind : Kinds, range : Ranges],
           pc' \in {"preparing", "recovering", "deciding", "done"}, pc = "deciding" => pc' = "done",
           known' \subseteq Ranges, \A r \in known' : Kept(r).landed,
           told' \in {None, "committed", "aborted", "doubt"}, told' # None <=> pc' = "done",
           pc' = "preparing" => pc = "opening",
           pc' \in {"recovering", "deciding"} => merged /\ Ask("begin", Coord) \notin net',
           pc' = "deciding" => Refused,
           told' = "committed" => Won,
           told' = "aborted" /\ ~looked => Doomed(1)'
    PROVE  Inv'
<1>1. /\ Typed /\ Drives /\ told = None
  BY DEF Inv, Drives
<1>2. QuietStep
  BY <1>1 DEF QuietStep, Typed
<1>3. Drives'
  <2>1. /\ (Everywhere' <=> Everywhere) /\ (Refused' <=> Refused) /\ (Won' <=> Won)
        /\ \A r \in Ranges : Kept(r)' = Kept(r)
    BY Unmoved
  <2> QED
    BY <1>1, <2>1 DEF Drives, Sent
<1>4. Replied'
  BY DEF Replied
<1> QED
  BY <1>1, <1>2, <1>3, <1>4, QuietInv DEF Typed, Places

LEMMA HearInv ==
    ASSUME Inv, Hear
    PROVE  Inv'
<1>1. /\ Typed /\ Asks /\ Drives /\ Coord \in Ranges /\ reply # None /\ reply.at = 1 /\ told = None
      /\ pc \in {"opening", "asking", "barring", "deciding"} /\ ReplyAt(1) /\ reply \in Replies
      /\ reply.of \in Ranges /\ merged \in BOOLEAN
  <2>1. pc \in {"opening", "asking", "barring", "deciding"}
    BY ReplyWaits DEF Hear
  <2> QED
    BY <2>1, AcrossAssumption DEF Inv, Drives, Hear, Replied, Typed, Replies
<1>2. /\ UNCHANGED <<line, trimmed, merged, missed, looked, overdue, verdict, recovering, gone, mishaps>>
      /\ reply' = None
  BY DEF Hear, houseVars
<1>3. /\ L[1] = Kept(Coord) /\ \A r \in Ranges : line[r][1] = Kept(r)
      /\ \A r \in known : Kept(r).landed
      /\ known \subseteq Ranges /\ net \subseteq [kind : Kinds, range : Ranges]
  BY <1>1 DEF L, Kept, Drives, Typed
<1>4. CASE pc = "opening" /\ pc' = "preparing" /\ net' = net \cup Round /\ UNCHANGED <<known, told>>
  <2>1. ~merged /\ ~Sent("open", Coord)
    BY <1>1, <1>4 DEF Drives, ReplyAt
  <2>2. \A kind, r : Ask(kind, r) \in net' => Sent(kind, r) \/ kind = "prepare"
    BY <1>1, <1>4, <2>1, RoundAsks DEF Sent
  <2>3. NewAsks
    BY <1>1, <1>4, <2>1, <2>2 DEF NewAsks, Fresh, Asks
  <2>4. net' \subseteq [kind : Kinds, range : Ranges]
    BY <1>1, <1>3, <1>4, RoundAsks
  <2> QED
    BY <1>1, <1>2, <1>3, <1>4, <2>3, <2>4, NoneIsApart, HeardInv
<1>5. CASE pc = "asking" /\ reply.says = "staging" /\ pc' = "recovering" /\ UNCHANGED <<net, known, told>>
  <2>1. merged /\ ~Sent("begin", Coord)
    BY <1>1, <1>5 DEF Drives, ReplyAt
  <2>2. NewAsks
    BY <1>1, <1>5, <2>1 DEF NewAsks, Fresh, Sent, Asks
  <2> QED
    BY <1>1, <1>2, <1>3, <1>5, <2>1, <2>2, NoneIsApart, HeardInv DEF Sent
<1>6. CASE pc = "asking" /\ reply.says = "aborted" /\ Tell("aborted") /\ net' = net \cup Dropping /\ UNCHANGED known
  <2>1. told' = "aborted" /\ pc' = "done" /\ merged
    BY <1>1, <1>6 DEF Tell, Drives
  <2>2. \A kind, r : Ask(kind, r) \in net' => Sent(kind, r) \/ kind = "drop"
    BY <1>1, <1>6, RoundAsks DEF Sent
  <2>3. Doomed(1) \/ (looked /\ Resolved)
    BY <1>1, <1>6 DEF ReplyAt
  <2>4. Doomed(1) => Doomed(1)'
    <3>1. L' = L /\ (Refused' <=> Refused)
      BY <1>2, Unmoved
    <3> QED
      BY <1>2, <2>1, <2>2, <3>1 DEF Doomed, Sent
  <2>5. NewAsks
    BY <1>1, <1>6, <2>1, <2>2, <2>3, <2>4 DEF NewAsks, Fresh, Asks
  <2>6. net' \subseteq [kind : Kinds, range : Ranges]
    BY <1>1, <1>3, <1>6, RoundAsks
  <2> QED
    BY <1>1, <1>2, <1>3, <1>6, <2>1, <2>3, <2>4, <2>5, <2>6, NoneIsApart, HeardInv
<1>7. CASE pc = "asking" /\ reply.says = "committed" /\ Tell("committed") /\ UNCHANGED <<net, known>>
  <2>1. Committed(Kept(Coord)) /\ merged
    BY <1>1, <1>3, <1>7 DEF ReplyAt, Drives
  <2>2. Won
    BY <2>1, CommittedWins
  <2> QED
    BY <1>1, <1>2, <1>7, <2>1, <2>2, TellCommitted
<1>8. CASE /\ pc = "barring" /\ reply.says = "landed" /\ pc' = "recovering"
           /\ known' = known \cup {reply.of} /\ UNCHANGED <<net, told>>
  <2>1. merged /\ ~Sent("begin", Coord) /\ Kept(reply.of).landed
    BY <1>1, <1>3, <1>8 DEF Drives, ReplyAt
  <2>2. NewAsks
    BY <1>1, <1>8, <2>1 DEF NewAsks, Fresh, Sent, Asks
  <2> QED
    BY <1>1, <1>2, <1>3, <1>8, <2>1, <2>2, NoneIsApart, HeardInv DEF Sent
<1>9. CASE /\ pc = "barring" /\ reply.says = "barred" /\ pc' = "deciding"
           /\ net' = net \cup {Ask("abort", Coord)} /\ UNCHANGED <<known, told>>
  <2>1. merged /\ ~Sent("begin", Coord) /\ Kept(reply.of).barred
    BY <1>1, <1>3, <1>9 DEF Drives, ReplyAt
  <2>2. Refused
    BY <1>1, <2>1 DEF Refused
  <2>3. \A kind, r : Ask(kind, r) \in net' => Sent(kind, r) \/ kind = "abort"
    BY <1>9 DEF Sent, Ask
  <2>4. NewAsks
    BY <1>1, <1>9, <2>1, <2>2, <2>3 DEF NewAsks, Fresh, Asks
  <2>5. net' \subseteq [kind : Kinds, range : Ranges]
    BY <1>1, <1>3, <1>9 DEF Ask, Kinds
  <2> QED
    BY <1>1, <1>2, <1>3, <1>9, <2>1, <2>2, <2>3, <2>4, <2>5, NoneIsApart, HeardInv DEF Sent
<1>10. CASE /\ pc = "deciding" /\ ~merged /\ missed = {} /\ reply.says = "ok"
            /\ Tell("committed") /\ net' = net \cup Keeping /\ UNCHANGED known
  <2>1. told' = "committed" /\ pc' = "done" /\ Committed(Kept(Coord))
    BY <1>1, <1>3, <1>10 DEF Tell, ReplyAt
  <2>2. Won
    BY <2>1, CommittedWins
  <2>3. \A kind, r : Ask(kind, r) \in net' => Sent(kind, r) \/ kind = "keep"
    BY <1>1, <1>10, RoundAsks DEF Sent
  <2>4. NewAsks
    BY <1>1, <1>10, <2>1, <2>2, <2>3 DEF NewAsks, Fresh, Asks
  <2>5. net' \subseteq [kind : Kinds, range : Ranges]
    BY <1>1, <1>3, <1>10, RoundAsks
  <2> QED
    BY <1>1, <1>2, <1>3, <1>10, <2>1, <2>2, <2>4, <2>5, NoneIsApart, HeardInv
<1>11. CASE /\ pc = "deciding" /\ ~merged /\ missed = {} /\ reply.says = "aborted"
            /\ Tell("aborted") /\ UNCHANGED <<net, known>>
  <2>1. told' = "aborted" /\ pc' = "done" /\ Doomed(1)
    BY <1>1, <1>3, <1>11 DEF Tell, ReplyAt
  <2>2. NewAsks
    BY <1>1, <1>11, <2>1 DEF NewAsks, Fresh, Sent, Asks
  <2>3. Doomed(1)'
    <3>1. L' = L /\ (Refused' <=> Refused)
      BY <1>2, Unmoved
    <3> QED
      BY <1>2, <1>11, <2>1, <3>1 DEF Doomed, Sent
  <2> QED
    BY <1>1, <1>2, <1>3, <1>11, <2>1, <2>2, <2>3, NoneIsApart, HeardInv
<1> QED
  BY <1>4, <1>5, <1>6, <1>7, <1>8, <1>9, <1>10, <1>11 DEF Hear

LEMMA GiveUpInv ==
    ASSUME Inv, GiveUp
    PROVE  Inv'
<1>1. /\ Typed /\ Asks /\ Drives /\ Coord \in Ranges /\ told = None /\ merged \in BOOLEAN
      /\ pc \in {"opening", "asking", "barring", "deciding"} /\ pc' = "done"
      /\ known \subseteq Ranges /\ \A r \in known : Kept(r).landed
      /\ net \subseteq [kind : Kinds, range : Ranges]
  BY AcrossAssumption DEF Inv, Drives, GiveUp, Tell, Typed
<1>2. /\ UNCHANGED <<line, trimmed, merged, known, missed, looked, overdue, verdict, recovering, gone, mishaps>>
      /\ reply' = None
  BY DEF GiveUp, houseVars
<1>3. L' = L /\ (Refused' <=> Refused)
  BY <1>2, Unmoved
<1>4. CASE pc = "opening" /\ Tell("aborted") /\ UNCHANGED net
  <2>1. NewAsks
    BY <1>1, <1>4 DEF NewAsks, Fresh, Sent, Asks
  <2>2. ~merged /\ ~Sent("commit", Coord) /\ told' = "aborted"
    BY <1>1, <1>4 DEF Drives, Asks, Tell
  <2>3. \A j \in 1 .. Len(L) : ~Committed(L[j])
    BY <1>4, <2>2 DEF Inv, Records, Record
  <2>4. Doomed(1)'
    BY <1>1, <1>2, <1>3, <1>4, <2>2, <2>3 DEF Doomed, Sent
  <2> QED
    BY <1>1, <1>2, <1>4, <2>1, <2>2, <2>4, NoneIsApart, HeardInv
<1>6. CASE Tell("doubt") /\ UNCHANGED net
  <2>1. NewAsks
    BY <1>1, <1>6 DEF NewAsks, Fresh, Sent, Asks
  <2>2. told' = "doubt"
    BY <1>6 DEF Tell
  <2> QED
    BY <1>1, <1>2, <1>6, <2>1, <2>2, NoneIsApart, HeardInv
<1>5. CASE pc = "deciding" /\ (merged \/ missed # {}) /\ Tell("aborted") /\ net' = net \cup Dropping
  <2>1. told' = "aborted"
    BY <1>5 DEF Tell
  <2>2. \A kind, r : Ask(kind, r) \in net' => Sent(kind, r) \/ kind = "drop"
    BY <1>1, <1>5, RoundAsks DEF Sent
  <2>3. Doomed(1)'
    <3>1. CASE merged
      BY <1>1, <1>2, <1>3, <1>5, <3>1 DEF Doomed, Drives
    <3>2. CASE ~merged
      <4>1. \A j \in 1 .. Len(L) : ~Committed(L[j])
        BY <1>5, <3>2 DEF Inv, Records, Record
      <4> QED
        BY <1>1, <1>2, <1>3, <1>5, <3>2, <4>1 DEF Doomed
    <3> QED
      BY <1>1, <3>1, <3>2
  <2>4. NewAsks
    BY <1>1, <1>5, <2>2, <2>3 DEF NewAsks, Fresh, Asks
  <2>5. net' \subseteq [kind : Kinds, range : Ranges]
    BY <1>1, <1>5, RoundAsks
  <2> QED
    BY <1>1, <1>2, <1>5, <2>1, <2>3, <2>4, <2>5, NoneIsApart, HeardInv
<1> QED
  BY <1>4, <1>5, <1>6 DEF GiveUp

---------------------------------------------------------------------------
(* A majority holds more of a line, or a new leader holds less of it: the  *)
(* line of range r becomes the m places of it after the first d.           *)

Moved(r, d, m) ==
    /\ line' \in [Ranges -> Seq(Entries)]
    /\ \A x \in Ranges : x # r => line'[x] = line[x]
    /\ d \in Nat /\ m \in Nat /\ m >= 1 /\ d + m <= Len(line[r])
    /\ Len(line'[r]) = m
    /\ \A k \in 1 .. m : line'[r][k] = line[r][k + d]
    /\ UNCHANGED <<net, pc, merged, known, missed, told, looked, overdue>>

\* An answer is lost, or waits for the same record or a later one.
Carried(old, new, r, d, m) ==
    \/ new = None
    \/ /\ old # None /\ new \in Replies /\ new.says = old.says /\ new.of = old.of
       /\ old.of # r => new.at = old.at
       /\ old.of = r => new.at \in 1 .. m /\ old.at <= new.at + d

LEMMA MovedLines ==
    ASSUME Inv, NEW r \in Ranges, NEW d, NEW m, Moved(r, d, m)
    PROVE  /\ Lines'
           /\ \A x \in Ranges :
                 /\ Len(line'[x]) \in Nat /\ Len(line'[x]) >= 1
                 /\ Keeps(Kept(x), Kept(x)') /\ Keeps(Tip(x)', Tip(x))
                 /\ \A k \in 1 .. Len(line'[x]) : \E j \in 1 .. Len(line[x]) : line'[x][k] = line[x][j]
           /\ Everywhere => Everywhere'
           /\ Refused => Refused'
           /\ Resolved => Resolved'
           /\ Won => Won'
<1>1. /\ Typed /\ Lines /\ Coord \in Ranges
      /\ \A x \in Ranges : Len(line[x]) \in Nat /\ Len(line[x]) >= 1
  BY Entry DEF Inv
<1>2. ASSUME NEW x \in Ranges
      PROVE  /\ \A k \in 1 .. Len(line'[x]) : Sound(line'[x][k])
             /\ \A j, k \in 1 .. Len(line'[x]) : j <= k => Keeps(line'[x][j], line'[x][k])
             /\ Len(line'[x]) \in Nat /\ Len(line'[x]) >= 1
             /\ Keeps(Kept(x), Kept(x)') /\ Keeps(Tip(x)', Tip(x))
             /\ \A k \in 1 .. Len(line'[x]) : \E j \in 1 .. Len(line[x]) : line'[x][k] = line[x][j]
  <2>1. /\ \A k \in 1 .. Len(line[x]) : Sound(line[x][k])
        /\ \A j, k \in 1 .. Len(line[x]) : j <= k => Keeps(line[x][j], line[x][k])
    BY <1>1 DEF Lines
  <2>2. CASE x # r
    <3>1. line'[x] = line[x]
      BY <2>2 DEF Moved
    <3>2. Keeps(Kept(x), Kept(x)') /\ Keeps(Tip(x)', Tip(x))
      BY <3>1 DEF Kept, Tip, Keeps
    <3> QED
      BY <1>1, <2>1, <3>1, <3>2
  <2>3. CASE x = r
    <3>1. /\ d \in Nat /\ m \in Nat /\ m >= 1 /\ d + m <= Len(line[x]) /\ Len(line'[x]) = m
          /\ \A k \in 1 .. m : line'[x][k] = line[x][k + d]
      BY <2>3 DEF Moved
    <3>2. \A k \in 1 .. m : k + d \in 1 .. Len(line[x])
      BY <1>1, <3>1
    <3>3. \A k \in 1 .. m : Sound(line'[x][k]) /\ \E j \in 1 .. Len(line[x]) : line'[x][k] = line[x][j]
      BY <2>1, <3>1, <3>2
    <3>4. ASSUME NEW j \in 1 .. m, NEW k \in 1 .. m, j <= k
          PROVE  Keeps(line'[x][j], line'[x][k])
      <4>1. j + d \in 1 .. Len(line[x]) /\ k + d \in 1 .. Len(line[x]) /\ j + d <= k + d
        BY <3>1, <3>2, <3>4
      <4> QED
        BY <2>1, <3>1, <4>1
    <3>5. Keeps(Kept(x), Kept(x)')
      <4>1. 1 \in 1 .. Len(line[x]) /\ 1 + d \in 1 .. Len(line[x]) /\ 1 <= 1 + d /\ 1 \in 1 .. m
        BY <1>1, <3>1, <3>2
      <4>2. Kept(x)' = line[x][1 + d]
        BY <3>1, <4>1 DEF Kept
      <4> QED
        BY <2>1, <4>1, <4>2 DEF Kept
    <3>6. Keeps(Tip(x)', Tip(x))
      <4>1. Len(line[x]) \in 1 .. Len(line[x]) /\ m + d \in 1 .. Len(line[x]) /\ m + d <= Len(line[x]) /\ m \in 1 .. m
        BY <1>1, <3>1, <3>2
      <4>2. Tip(x)' = line[x][m + d]
        BY <3>1, <4>1 DEF Tip
      <4> QED
        BY <2>1, <4>1, <4>2 DEF Tip
    <3> QED
      BY <3>1, <3>3, <3>4, <3>5, <3>6
  <2> QED
    BY <2>2, <2>3
<1>3. /\ Everywhere => Everywhere'
      /\ Refused => Refused'
  BY <1>2 DEF Everywhere, Refused, Keeps
<1>4. Resolved => Resolved'
  BY <1>2, NoneIsApart DEF Resolved, Keeps
<1>5. Won => Won'
  <2>1. merged' = merged
    BY DEF Moved
  <2> QED
    BY <1>1, <1>2, <1>3, <2>1 DEF Won, Keeps
<1> QED
  BY <1>2, <1>3, <1>4, <1>5 DEF Lines

\* A place of Coord's line comes from a place that is not before it.
LEMMA MovedFrom ==
    ASSUME Inv, NEW r \in Ranges, NEW d, NEW m, Moved(r, d, m), NEW x \in Ranges,
           NEW p \in 1 .. Len(line[x]), NEW q \in 1 .. Len(line'[x]),
           x # r => q = p, x = r => p <= q + d
    PROVE  \A j \in q .. Len(line'[x]) :
              \E k \in p .. Len(line[x]) : line'[x][j] = line[x][k]
<1> SUFFICES ASSUME NEW j \in q .. Len(line'[x])
             PROVE  \E k \in p .. Len(line[x]) : line'[x][j] = line[x][k]
  OBVIOUS
<1>1. Len(line[x]) \in Nat /\ Len(line'[x]) \in Nat
  BY Entry, MovedLines DEF Inv
<1>2. CASE x # r
  BY <1>1, <1>2 DEF Moved
<1>3. CASE x = r
  <2>1. /\ d \in Nat /\ m \in Nat /\ d + m <= Len(line[x]) /\ Len(line'[x]) = m
        /\ \A k \in 1 .. m : line'[x][k] = line[x][k + d]
    BY <1>3 DEF Moved
  <2>2. j \in 1 .. m /\ j + d \in p .. Len(line[x])
    BY <1>1, <1>3, <2>1
  <2> QED
    BY <2>1, <2>2
<1> QED
  BY <1>2, <1>3

LEMMA MovedDoomed ==
    ASSUME Inv, NEW r \in Ranges, NEW d, NEW m, Moved(r, d, m),
           NEW p \in 1 .. Len(L), NEW q \in 1 .. Len(line'[Coord]),
           Coord # r => q = p, Coord = r => p <= q + d, Doomed(p)
    PROVE  Doomed(q)'
<1>1. /\ Coord \in Ranges /\ L = line[Coord] /\ L' = line'[Coord] /\ merged \in BOOLEAN
      /\ UNCHANGED <<net, pc, merged, missed>>
      /\ Refused => Refused'
  <2>1. Refused => Refused'
    BY MovedLines
  <2>2. Coord \in Ranges /\ L = line[Coord] /\ L' = line'[Coord]
    BY AcrossAssumption DEF L
  <2>3. merged \in BOOLEAN
    BY DEF Inv, Typed
  <2>4. UNCHANGED <<net, pc, merged, missed>>
    BY DEF Moved
  <2> QED
    BY <2>1, <2>2, <2>3, <2>4
<1>2. \A j \in q .. Len(L') : \E k \in p .. Len(L) : L'[j] = L[k]
  BY <1>1, MovedFrom
<1>3. CASE merged
  <2>1. CASE Refused
    BY <1>1, <1>3, <2>1 DEF Doomed
  <2>2. CASE ~Refused
    <3>1. \A k \in p .. Len(L) : ~L[k].landed /\ (Is(L[k], "aborted") \/ ~Sent("begin", Coord))
      BY <1>3, <2>2 DEF Doomed
    <3>2. \A j \in q .. Len(L') : ~L'[j].landed /\ (Is(L'[j], "aborted") \/ ~Sent("begin", Coord))
      BY <1>2, <3>1
    <3> QED
      BY <1>1, <1>3, <3>2 DEF Doomed, Sent
  <2> QED
    BY <2>1, <2>2
<1>4. CASE ~merged
  <2>1. \A j \in q .. Len(L') : ~Committed(L'[j])
    BY <1>2, <1>4 DEF Doomed
  <2>2. (\A k \in p .. Len(L) : Unset(L[k])) => \A j \in q .. Len(L') : Unset(L'[j])
    BY <1>2
  <2> QED
    BY <1>1, <1>4, <2>1, <2>2 DEF Doomed, Sent
<1> QED
  BY <1>1, <1>3, <1>4

\* What an answer on its way says of a line, it says after the move.
LEMMA CarriedFacts ==
    ASSUME Inv, NEW r \in Ranges, NEW d, NEW m, Moved(r, d, m),
           NEW old \in Replies, NEW new \in Replies, Carried(old, new, r, d, m), old.at \in 1 .. Len(line[old.of])
    PROVE  /\ new.says = old.says /\ new.of = old.of
           /\ new.at \in 1 .. Len(line'[old.of])
           /\ Keeps(line[old.of][old.at], line'[old.of][new.at])
           /\ old.of = Coord => \A p, q \in Nat : p = old.at /\ q = new.at /\ Doomed(p) => Doomed(q)'
<1>1. /\ new.says = old.says /\ new.of = old.of /\ old.of \in Ranges
      /\ old.of # r => new.at = old.at
      /\ old.of = r => new.at \in 1 .. m /\ old.at <= new.at + d
  BY NoneIsApart DEF Carried, Replies
<1>2. /\ Len(line[old.of]) \in Nat
      /\ \A j, k \in 1 .. Len(line[old.of]) : j <= k => Keeps(line[old.of][j], line[old.of][k])
  BY <1>1, Entry DEF Inv, Lines
<1>3. new.at \in 1 .. Len(line'[old.of])
  BY <1>1 DEF Moved
<1>4. Keeps(line[old.of][old.at], line'[old.of][new.at])
  <2>1. CASE old.of # r
    BY <1>1, <2>1 DEF Moved, Keeps
  <2>2. CASE old.of = r
    <3>1. /\ d \in Nat /\ m \in Nat /\ d + m <= Len(line[old.of])
          /\ line'[old.of][new.at] = line[old.of][new.at + d]
      BY <1>1, <2>2 DEF Moved
    <3>2. new.at + d \in 1 .. Len(line[old.of]) /\ old.at <= new.at + d
      BY <1>1, <1>2, <2>2, <3>1
    <3> QED
      BY <1>2, <3>1, <3>2
  <2> QED
    BY <2>1, <2>2
<1>5. ASSUME old.of = Coord, NEW p \in Nat, NEW q \in Nat, p = old.at, q = new.at, Doomed(p)
      PROVE  Doomed(q)'
  <2>1. p \in 1 .. Len(L) /\ q \in 1 .. Len(line'[Coord])
    BY <1>3, <1>5 DEF L
  <2> QED
    BY <1>1, <1>5, <2>1, MovedDoomed
<1> QED
  BY <1>1, <1>3, <1>4, <1>5


\* An answer on its way waits for a place its range's line has.
LEMMA AnsweredPlaces ==
    ASSUME Inv
    PROVE  /\ reply # None => reply.at \in 1 .. Len(line[reply.of])
           /\ \A x \in Ranges : verdict[x] # None => verdict[x].at \in 1 .. Len(line[verdict[x].of])
<1>1. /\ reply \in Replies \cup {None} /\ verdict \in [Ranges -> Replies \cup {None}]
      /\ Replied /\ Verdicts
  BY DEF Inv, Typed
<1>2. ASSUME reply # None
      PROVE  reply.at \in 1 .. Len(line[reply.of])
  <2>1. PICK p \in Nat : p = reply.at
    BY <1>1, <1>2 DEF Replies
  <2>2. ReplyAt(p)
    BY <1>1, <1>2, <2>1 DEF Replied
  <2> QED
    BY <2>1, <2>2 DEF ReplyAt
<1>3. ASSUME NEW x \in Ranges, verdict[x] # None
      PROVE  verdict[x].at \in 1 .. Len(line[verdict[x].of])
  <2>1. verdict[x] \in Replies
    BY <1>1, <1>3
  <2>2. PICK p \in Nat : p = verdict[x].at
    BY <2>1 DEF Replies
  <2>3. VerdictAt(x, p)
    BY <1>1, <1>3, <2>2 DEF Verdicts, Answered
  <2> QED
    BY <2>2, <2>3 DEF VerdictAt, L
<1> QED
  BY <1>2, <1>3

\* A move of a line keeps what is known of T.
LEMMA MoveInv ==
    ASSUME Inv, NEW r \in Ranges, NEW d, NEW m, Moved(r, d, m),
           trimmed' \in [Ranges -> BOOLEAN], mishaps' \in Nat, recovering' \in BOOLEAN,
           reply' \in Replies \cup {None}, Carried(reply, reply', r, d, m),
           verdict' \in [Ranges -> Replies \cup {None}],
           \A x \in Ranges : Carried(verdict[x], verdict'[x], r, d, m),
           recovering' => recovering /\ Tip(Coord)' = Tip(Coord),
           gone' = {} \/ (gone' = gone /\ Tip(Coord)' = Tip(Coord))
    PROVE  Inv'
<1>1. /\ Lines'
      /\ \A x \in Ranges :
            /\ Len(line'[x]) \in Nat /\ Len(line'[x]) >= 1
            /\ Keeps(Kept(x), Kept(x)') /\ Keeps(Tip(x)', Tip(x))
            /\ \A k \in 1 .. Len(line'[x]) : \E j \in 1 .. Len(line[x]) : line'[x][k] = line[x][j]
      /\ Everywhere => Everywhere'
      /\ Refused => Refused'
      /\ Resolved => Resolved'
      /\ Won => Won'
  BY MovedLines
<1>2. /\ Coord \in Ranges /\ L = line[Coord] /\ L' = line'[Coord]
      /\ \A x \in Ranges : Len(line[x]) \in Nat /\ Len(line[x]) >= 1
  BY Entry DEF Inv, L
<1>3. UNCHANGED <<net, pc, merged, known, missed, told, looked, overdue>>
  BY DEF Moved
<1>4. Doomed(1) => Doomed(1)'
  <2>1. PICK p \in Nat : p = 1
    OBVIOUS
  <2>2. p \in 1 .. Len(L) /\ p \in 1 .. Len(line'[Coord]) /\ (Coord = r => p <= p + d)
    BY <1>1, <1>2, <2>1 DEF Moved
  <2>3. Doomed(p) => Doomed(p)'
    BY <2>2, MovedDoomed
  <2> QED
    BY <2>1, <2>3
<1>5. Typed'
  <2>1. Typed /\ line' \in [Ranges -> Seq(Entries)]
    BY DEF Inv, Moved
  <2>2. gone' \subseteq Ranges
    BY <2>1 DEF Typed
  <2> QED
    BY <1>1, <1>3, <2>1, <2>2 DEF Typed
<1>6. Fates'
  <2> SUFFICES ASSUME NEW x \in Ranges, NEW k \in 1 .. Len(line'[x])
               PROVE  /\ line'[x][k].fate = "kept" => Won'
                      /\ line'[x][k].fate = "dropped" => Doomed(1)'
    BY DEF Fates
  <2>1. PICK j \in 1 .. Len(line[x]) : line'[x][k] = line[x][j]
    BY <1>1
  <2>2. /\ line[x][j].fate = "kept" => Won
        /\ line[x][j].fate = "dropped" => Doomed(1)
    BY DEF Inv, Fates
  <2> QED
    BY <1>1, <1>4, <2>1, <2>2
<1>7. Records'
  <2> SUFFICES ASSUME NEW k \in 1 .. Len(L')
               PROVE  Record(k)'
    BY DEF Records
  <2>1. PICK j \in 1 .. Len(L) : L'[k] = L[j]
    BY <1>1, <1>2
  <2>2. Record(j)
    BY DEF Inv, Records
  <2>3. /\ Sent("commit", Coord)' = Sent("commit", Coord)
        /\ Sent("settle", Coord)' = Sent("settle", Coord)
    BY <1>3 DEF Sent
  <2>4. L[j].fate = "kept" => Is(L[j], "committed") \/ (Unset(L[j]) /\ Resolved')
    BY <1>1, <2>2 DEF Record
  <2>5. merged => /\ ~Is(L[j], "pending")
                  /\ Is(L[j], "staging") => L[j].landed
                  /\ L[j].landed /\ Unset(L[j]) => Committed(L[j]) \/ Refused'
    BY <1>1, <2>2 DEF Record
  <2>6. Committed(L[j]) =>
           /\ Everywhere'
           /\ merged => overdue \/ told = "committed"
           /\ ~merged => pc \in {"deciding", "done"} /\ ~Sent("commit", Coord) /\ missed = {}
    BY <1>1, <2>2 DEF Record
  <2>7. /\ Is(L[j], "committed") => L[j].rec.of = Ranges
        /\ ~merged => ~Is(L[j], "staging")
        /\ Sent("settle", Coord) => ~(L[j].fate = "kept" /\ Unset(L[j]))
    BY <2>2 DEF Record
  <2> QED
    BY <1>3, <2>1, <2>3, <2>4, <2>5, <2>6, <2>7 DEF Record
<1>8. Asks'
  <2>1. \A x \in Ranges : /\ ~Tip(x).landed => ~Tip(x)'.landed
                          /\ ~Tip(x).barred => ~Tip(x)'.barred
    BY <1>1 DEF Keeps
  <2>2. Asks
    BY DEF Inv
  <2>3. /\ net' = net /\ pc' = pc /\ merged' = merged /\ missed' = missed
        /\ told' = told /\ looked' = looked
    BY <1>3
  <2>4. \A x \in Ranges : Sent("drop", x) => Doomed(1)' \/ Resolved'
    BY <1>1, <1>4, <2>2 DEF Asks
  <2>5. /\ \A x \in Ranges : Sent("keep", x) => Won'
        /\ Sent("conclude", Coord) => Won' /\ told = "committed"
        /\ Sent("abort", Coord) => (merged => Refused') /\ (~merged => missed # {})
        /\ Sent("commit", Coord) => Everywhere' /\ missed = {} /\ pc \in {"deciding", "done"}
    BY <1>1, <2>2 DEF Asks
  <2>6. /\ pc = "idle" => net = {} /\ ~Tip(Coord)'.barred
        /\ (pc \in {"idle", "opening"} \/ Sent("open", Coord)) =>
              \A x \in Ranges : ~Tip(x)'.landed /\ ~Sent("prepare", x)
        /\ \A x \in Ranges : Sent("prepare", x) => ~Tip(x)'.landed
        /\ Sent("begin", Coord) => /\ ~Tip(Coord)'.landed /\ ~Tip(Coord)'.barred
                                   /\ ~Sent("bar", Coord)
                                   /\ pc \in {"preparing", "asking", "done"}
    BY <1>2, <2>1, <2>2 DEF Asks
  <2>7. /\ merged => /\ ~Sent("open", Coord) /\ ~Sent("commit", Coord)
                     /\ ~Sent("prepare", Coord) /\ ~Sent("keep", Coord)
        /\ ~merged => /\ ~Sent("begin", Coord) /\ ~Sent("conclude", Coord)
                      /\ ~Sent("settle", Coord) /\ ~Sent("lookup", Coord)
                      /\ \A x \in Ranges : ~Sent("bar", x)
        /\ Sent("open", Coord) => pc \in {"opening", "done"}
        /\ Sent("lookup", Coord) => looked
    BY <2>2 DEF Asks
  <2> QED
    BY <2>3, <2>4, <2>5, <2>6, <2>7 DEF Asks, Sent
<1>9. Drives'
  <2>1. \A x \in known : Kept(x)'.landed
    BY <1>1 DEF Inv, Drives, Typed, Keeps
  <2>2. /\ told = "committed" => Won'
        /\ told = "aborted" /\ ~looked => Doomed(1)'
        /\ pc = "deciding" /\ merged => Refused'
    BY <1>1, <1>4 DEF Inv, Drives
  <2>3. Drives
    BY DEF Inv
  <2> QED
    BY <1>3, <2>1, <2>2, <2>3 DEF Drives, Sent
<1>10. Replied'
  <2> SUFFICES ASSUME reply' # None, NEW q \in Nat, q = reply'.at
               PROVE  ReplyAt(q)'
    BY DEF Replied
  <2>1. PICK new \in Replies : new = reply'
    OBVIOUS
  <2>2. reply # None
    BY DEF Carried
  <2>3. PICK old \in Replies : old = reply
    BY <2>2 DEF Inv, Typed
  <2>4. PICK p \in Nat : p = old.at
    BY DEF Replies
  <2>5. ReplyAt(p)
    BY <2>2, <2>3, <2>4 DEF Inv, Replied
  <2>6. Carried(old, new, r, d, m) /\ old.at \in 1 .. Len(line[old.of])
    BY <2>1, <2>3, <2>4, <2>5 DEF ReplyAt
  <2>7. /\ new.says = old.says /\ new.of = old.of
        /\ new.at \in 1 .. Len(line'[old.of])
        /\ Keeps(line[old.of][old.at], line'[old.of][new.at])
        /\ old.of = Coord => \A i, j \in Nat : i = old.at /\ j = new.at /\ Doomed(i) => Doomed(j)'
    BY <2>6, CarriedFacts
  <2>8. /\ reply'.says = reply.says /\ reply'.of = reply.of
        /\ q \in 1 .. Len(line'[reply.of])
        /\ Keeps(line[reply.of][p], line'[reply.of][q])
        /\ reply.of = Coord /\ Doomed(p) => Doomed(q)'
    BY <2>1, <2>3, <2>4, <2>7
  <2>9. /\ reply.of = Coord /\ Committed(L[p]) => Committed(L'[q])
        /\ line[reply.of][p].landed => line'[reply.of][q].landed
        /\ line[reply.of][p].barred => line'[reply.of][q].barred
    BY <1>2, <2>8 DEF Keeps
  <2>10. /\ Sent("open", Coord)' = Sent("open", Coord)
         /\ Sent("begin", Coord)' = Sent("begin", Coord)
         /\ Sent("commit", Coord)' = Sent("commit", Coord)
    BY <1>3 DEF Sent
  <2>11. CASE pc = "opening"
    BY <1>3, <2>5, <2>8, <2>10, <2>11 DEF ReplyAt
  <2>12. CASE pc = "asking"
    BY <1>1, <1>3, <2>5, <2>8, <2>9, <2>10, <2>12 DEF ReplyAt
  <2>13. CASE pc = "barring"
    BY <1>3, <2>5, <2>8, <2>9, <2>13 DEF ReplyAt
  <2>14. CASE pc = "deciding"
    BY <1>3, <1>4, <2>5, <2>8, <2>9, <2>10, <2>14 DEF ReplyAt
  <2> QED
    BY <2>5, <2>11, <2>12, <2>13, <2>14 DEF ReplyAt
<1>11. Verdicts'
  <2> SUFFICES ASSUME NEW x \in Ranges, verdict'[x] # None, NEW q \in Nat, q = verdict'[x].at
               PROVE  VerdictAt(x, q)'
    BY DEF Verdicts, Answered
  <2>1. PICK new \in Replies : new = verdict'[x]
    OBVIOUS
  <2>2. verdict[x] # None /\ Carried(verdict[x], verdict'[x], r, d, m)
    BY DEF Carried
  <2>3. PICK old \in Replies : old = verdict[x]
    BY <2>2 DEF Inv, Typed
  <2>4. PICK p \in Nat : p = old.at
    BY DEF Replies
  <2>5. VerdictAt(x, p)
    BY <2>2, <2>3, <2>4 DEF Inv, Verdicts, Answered
  <2>6. Carried(old, new, r, d, m) /\ old.of = Coord /\ old.at \in 1 .. Len(line[old.of])
    BY <1>2, <2>1, <2>2, <2>3, <2>4, <2>5 DEF VerdictAt
  <2>7. /\ new.says = old.says /\ new.of = old.of
        /\ new.at \in 1 .. Len(line'[old.of])
        /\ Keeps(line[old.of][old.at], line'[old.of][new.at])
        /\ old.of = Coord => \A i, j \in Nat : i = old.at /\ j = new.at /\ Doomed(i) => Doomed(j)'
    BY <2>6, CarriedFacts
  <2>8. /\ verdict'[x].says = verdict[x].says /\ verdict'[x].of = Coord
        /\ q \in 1 .. Len(L')
        /\ Keeps(L[p], L'[q])
        /\ Doomed(p) => Doomed(q)'
    BY <1>2, <2>1, <2>3, <2>4, <2>6, <2>7
  <2> QED
    BY <2>5, <2>8 DEF VerdictAt, Keeps
<1>12. Recovers'
  BY <1>3 DEF Inv, Recovers
<1>13. Gathers'
  <2>1. CASE gone' = {}
    BY <2>1 DEF Gathers
  <2>2. CASE gone' = gone /\ Tip(Coord)' = Tip(Coord)
    <3>1. \A x \in gone : Kept(x).fate = "kept" => Kept(x)'.fate = "kept"
      BY <1>1, NoneIsApart DEF Inv, Typed, Keeps
    <3> QED
      BY <2>2, <3>1 DEF Inv, Gathers
  <2> QED
    BY <2>1, <2>2
<1> QED
  BY <1>1, <1>5, <1>6, <1>7, <1>8, <1>9, <1>10, <1>11, <1>12, <1>13 DEF Inv

\* A majority holds more of range r's line: every answer is that much nearer.
LEMMA ReplicateInv ==
    ASSUME Inv, NEW r \in Ranges, Replicate(r)
    PROVE  Inv'
<1>1. PICK n \in 2 .. Len(line[r]) :
          /\ line' = [line EXCEPT ![r] = SubSeq(@, n, Len(@))]
          /\ reply' = Nearer(reply, r, n)
          /\ verdict' = [s \in Ranges |-> Nearer(verdict[s], r, n)]
  BY DEF Replicate
<1>2. /\ UNCHANGED <<net, pc, merged, known, missed, told, looked, overdue>>
      /\ UNCHANGED <<trimmed, recovering, gone, mishaps>>
  BY DEF Replicate
<1>3. /\ Typed /\ Coord \in Ranges /\ line \in [Ranges -> Seq(Entries)]
      /\ Len(line[r]) \in Nat /\ Len(line[r]) >= 1
  BY Entry DEF Inv, Typed
<1>4. PICK d \in Nat : d = n - 1
  BY <1>3
<1>5. PICK m \in Nat : m = Len(line[r]) - n + 1
  <2>1. n \in Nat /\ n <= Len(line[r]) /\ Len(line[r]) \in Nat
    BY <1>3
  <2>2. Len(line[r]) - n + 1 \in Nat
    BY <2>1
  <2> QED
    BY <2>2
<1>6. /\ SubSeq(line[r], n, Len(line[r])) \in Seq(Entries)
      /\ Len(SubSeq(line[r], n, Len(line[r]))) = m
      /\ \A k \in 1 .. m : SubSeq(line[r], n, Len(line[r]))[k] = line[r][k + d]
  <2>1. line[r] \in Seq(Entries) /\ n \in 1 .. Len(line[r]) /\ m = Len(line[r]) - n + 1 /\ d = n - 1
    BY <1>3, <1>4, <1>5
  <2> QED
    BY <2>1
<1>7. line'[r] = SubSeq(line[r], n, Len(line[r])) /\ line' \in [Ranges -> Seq(Entries)]
      /\ \A x \in Ranges : x # r => line'[x] = line[x]
  BY <1>1, <1>3, <1>6
<1>8. Moved(r, d, m)
  BY <1>2, <1>3, <1>4, <1>5, <1>6, <1>7 DEF Moved
<1>9. ASSUME NEW ans \in Replies \cup {None},
             ans # None => ans.at \in 1 .. Len(line[ans.of])
      PROVE  Nearer(ans, r, n) \in Replies \cup {None} /\ Carried(ans, Nearer(ans, r, n), r, d, m)
  <2>1. CASE ans # None /\ ans.of = r
    <3>1. ans \in Replies /\ ans.at \in 1 .. Len(line[r])
      BY <1>9, <2>1
    <3>2. PICK a \in Nat : a = IF ans.at > n THEN ans.at - n + 1 ELSE 1
      BY <1>3, <3>1
    <3>3. a \in 1 .. m /\ ans.at <= a + d
      BY <1>3, <1>4, <1>5, <3>1, <3>2
    <3>4. Nearer(ans, r, n) = [ans EXCEPT !.at = a]
      BY <2>1, <3>2 DEF Nearer
    <3>5. PICK new \in Replies : new = [ans EXCEPT !.at = a]
      BY <3>1 DEF Replies
    <3>6. new.says = ans.says /\ new.of = ans.of /\ new.at = a
      BY <3>1, <3>5 DEF Replies
    <3> QED
      BY <2>1, <3>3, <3>4, <3>5, <3>6 DEF Carried
  <2>2. CASE ~(ans # None /\ ans.of = r)
    BY <2>2 DEF Nearer, Carried
  <2> QED
    BY <2>1, <2>2
<1>10. /\ reply \in Replies \cup {None} /\ verdict \in [Ranges -> Replies \cup {None}]
       /\ reply # None => reply.at \in 1 .. Len(line[reply.of])
       /\ \A x \in Ranges : verdict[x] # None => verdict[x].at \in 1 .. Len(line[verdict[x].of])
  BY <1>3, AnsweredPlaces DEF Typed
<1>11. /\ reply' \in Replies \cup {None} /\ Carried(reply, reply', r, d, m)
       /\ verdict' \in [Ranges -> Replies \cup {None}]
       /\ \A x \in Ranges : Carried(verdict[x], verdict'[x], r, d, m)
  BY <1>1, <1>9, <1>10
<1>12. Tip(Coord)' = Tip(Coord)
  <2>1. CASE r = Coord
    <3>1. m \in 1 .. m /\ m + d = Len(line[r])
      BY <1>3, <1>4, <1>5
    <3> QED
      BY <1>6, <1>7, <2>1, <3>1 DEF Tip
  <2> QED
    BY <1>3, <1>7, <2>1 DEF Tip
<1> QED
  BY <1>2, <1>3, <1>8, <1>11, <1>12, MoveInv DEF Typed

\* A new leader of range r holds the first n places of its line.
LEMMA FailoverInv ==
    ASSUME Inv, NEW r \in Ranges, Failover(r)
    PROVE  Inv'
<1>1. PICK n \in 1 .. Len(line[r]) :
          /\ line' = [line EXCEPT ![r] = SubSeq(@, 1, n)]
          /\ reply' = Lost(reply, r, n)
          /\ verdict' = [s \in Ranges |-> IF s = r THEN None ELSE Lost(verdict[s], r, n)]
  BY DEF Failover
<1>2. /\ UNCHANGED <<net, pc, merged, known, missed, told, looked, overdue>>
      /\ recovering' = (recovering /\ r # Coord)
      /\ gone' = IF r = Coord THEN {} ELSE gone
      /\ mishaps' = mishaps + 1
      /\ \E past \in {FALSE, (r \in Pruned)} : trimmed' = [trimmed EXCEPT ![r] = past]
  BY DEF Failover
<1>3. /\ Typed /\ Coord \in Ranges /\ line \in [Ranges -> Seq(Entries)]
      /\ Len(line[r]) \in Nat /\ Len(line[r]) >= 1
  BY Entry DEF Inv, Typed
<1>4. PICK d \in Nat : d = 0
  OBVIOUS
<1>5. PICK m \in Nat : m = n
  BY <1>3
<1>6. /\ SubSeq(line[r], 1, n) \in Seq(Entries)
      /\ Len(SubSeq(line[r], 1, n)) = m
      /\ \A k \in 1 .. m : SubSeq(line[r], 1, n)[k] = line[r][k + d]
  <2>1. line[r] \in Seq(Entries) /\ n \in 1 .. Len(line[r]) /\ m = n /\ d = 0
    BY <1>3, <1>4, <1>5
  <2> QED
    BY <2>1
<1>7. line'[r] = SubSeq(line[r], 1, n) /\ line' \in [Ranges -> Seq(Entries)]
      /\ \A x \in Ranges : x # r => line'[x] = line[x]
  BY <1>1, <1>3, <1>6
<1>8. Moved(r, d, m)
  BY <1>2, <1>3, <1>4, <1>5, <1>6, <1>7 DEF Moved
<1>9. ASSUME NEW ans \in Replies \cup {None},
             ans # None => ans.at \in 1 .. Len(line[ans.of])
      PROVE  Lost(ans, r, n) \in Replies \cup {None} /\ Carried(ans, Lost(ans, r, n), r, d, m)
  <2>1. CASE ans # None /\ ans.of = r /\ ans.at > n
    BY <2>1 DEF Lost, Carried
  <2>2. CASE ans # None /\ ans.of = r /\ ~(ans.at > n)
    BY <1>3, <1>4, <1>5, <1>9, <2>2 DEF Lost, Carried
  <2>3. CASE ~(ans # None /\ ans.of = r)
    BY <2>3 DEF Lost, Carried
  <2> QED
    BY <2>1, <2>2, <2>3
<1>10. /\ reply \in Replies \cup {None} /\ verdict \in [Ranges -> Replies \cup {None}]
       /\ reply # None => reply.at \in 1 .. Len(line[reply.of])
       /\ \A x \in Ranges : verdict[x] # None => verdict[x].at \in 1 .. Len(line[verdict[x].of])
  BY <1>3, AnsweredPlaces DEF Typed
<1>11. /\ reply' \in Replies \cup {None} /\ Carried(reply, reply', r, d, m)
       /\ verdict' \in [Ranges -> Replies \cup {None}]
       /\ \A x \in Ranges : Carried(verdict[x], verdict'[x], r, d, m)
  <2>1. reply' \in Replies \cup {None} /\ Carried(reply, reply', r, d, m)
    BY <1>1, <1>9, <1>10
  <2>2. ASSUME NEW x \in Ranges
        PROVE  verdict'[x] \in Replies \cup {None} /\ Carried(verdict[x], verdict'[x], r, d, m)
    <3>1. CASE x = r
      BY <1>1, <3>1 DEF Carried
    <3>2. CASE x # r
      BY <1>1, <1>9, <1>10, <3>2
    <3> QED
      BY <3>1, <3>2
  <2> QED
    BY <1>1, <2>1, <2>2
<1>12. r # Coord => Tip(Coord)' = Tip(Coord)
  BY <1>3, <1>7 DEF Tip
<1>13. trimmed' \in [Ranges -> BOOLEAN]
  <2>1. PICK past \in {FALSE, (r \in Pruned)} : trimmed' = [trimmed EXCEPT ![r] = past]
    BY <1>2
  <2>2. past \in BOOLEAN /\ trimmed \in [Ranges -> BOOLEAN]
    <3>1. (r \in Pruned) \in BOOLEAN
      OBVIOUS
    <3> QED
      BY <1>3, <3>1 DEF Typed
  <2> QED
    BY <2>1, <2>2
<1>14. /\ recovering' \in BOOLEAN /\ mishaps' \in Nat
       /\ recovering' => recovering /\ r # Coord
  <2>1. mishaps' \in Nat
    BY <1>2, <1>3 DEF Typed
  <2>2. (recovering /\ r # Coord) \in BOOLEAN
    OBVIOUS
  <2>3. recovering' \in BOOLEAN /\ (recovering' => recovering /\ r # Coord)
    BY <1>2, <2>2, Zenon
  <2> QED
    BY <2>1, <2>3
<1> QED
  BY <1>2, <1>8, <1>11, <1>12, <1>13, <1>14, MoveInv

---------------------------------------------------------------------------
(* The write of a settle, some time after its read.                        *)

\* What the settles that have yet to write are known by: a decision they read still
\* stands, and an abort that somebody waits for is not written over the forgotten
\* record of a committed T, unless the driver asked past the deadline.
ReadBy(s) ==
    /\ s \in Settles
    /\ s.writes.is = "committed" => s.writes = Tip(Coord).rec
    /\ s.to # None => pc # "idle" /\ ~Sent("open", Coord)
    /\ s.to = "driver" => merged
    /\ s.to # None /\ s.writes.is = "aborted" =>
          (s.to = "driver" /\ looked) \/ ~(Tip(Coord).fate = "kept" /\ Unset(Tip(Coord)))

Reading == \A s \in settling : ReadBy(s)

\* The record a settle leaves, when it did not find it staging.
LEMMA SettledStep ==
    ASSUME Inv, Reading, LeaderStep, NEW s \in settling,
           Accepts(Tip(Coord).rec, s.writes.is, FALSE), ~Is(Tip(Coord), "staging"),
           Apply(Coord, [Tip(Coord) EXCEPT !.rec = s.writes])
    PROVE  \E e \in Entries :
              /\ Step(Coord, e) /\ e.rec = s.writes /\ e.rec # None /\ e.fate = Tip(Coord).fate
              /\ Decided(Tip(Coord).rec) => Tip(Coord).rec.is = s.writes.is
              /\ Is(e, "committed") => Is(Tip(Coord), "committed")
<1>1. /\ Coord \in Ranges /\ Tip(Coord) \in Entries /\ Tip(Coord).rec \in Recs \cup {None} /\ Typed
  BY AcrossAssumption, TipFacts DEF Inv, Entries
<1>2. /\ s.writes \in Recs /\ s.writes # None /\ s.writes.is \in {"committed", "aborted"}
      /\ s.writes.is = "committed" => s.writes = Tip(Coord).rec
  BY NoneIsApart DEF Reading, ReadBy, Settles, Recs, Standings
<1>3. CASE s.writes.is = "committed"
  <2> PICK e \in Entries : e = Tip(Coord)
    BY <1>1
  <2>1. [Tip(Coord) EXCEPT !.rec = s.writes] = Tip(Coord)
    BY <1>1, <1>2, <1>3 DEF Entries
  <2>2. UNCHANGED line
    BY <1>1, <2>1 DEF Apply, Typed
  <2>3. Step(Coord, e)
    BY <1>1, <2>2, IdleStep
  <2> QED
    BY <1>2, <1>3, <2>3 DEF Is
<1>4. CASE s.writes.is = "aborted"
  <2>1. ~Is(Tip(Coord), "committed") /\ (Decided(Tip(Coord).rec) => Tip(Coord).rec.is = "aborted")
    BY <1>4 DEF Accepts, Is, Decided
  <2> PICK e \in Entries :
              /\ Step(Coord, e) /\ e.rec = s.writes /\ Is(e, "aborted")
              /\ e.fate = Tip(Coord).fate /\ e.landed = Tip(Coord).landed
    BY <1>2, <1>4, <2>1, AbortStep
  <2> QED
    BY <1>2, <1>4, <2>1 DEF Is
<1> QED
  BY <1>2, <1>3, <1>4

LEMMA SettleWritesInv ==
    ASSUME Inv, Reading, NEW s \in settling, SettleWrites(s), ~overtaken'
    PROVE  Inv'
<1>1. /\ LeaderStep /\ UNCHANGED <<trimmed, recovering, gone, mishaps>>
      /\ Coord \in Ranges /\ Typed /\ Asks
  BY AcrossAssumption DEF SettleWrites, LeaderStep, Inv
<1>2. CASE ~Accepts(Tip(Coord).rec, s.writes.is, FALSE)
  BY <1>1, <1>2, IdleStepInv DEF SettleWrites
<1>3. CASE Accepts(Tip(Coord).rec, s.writes.is, FALSE)
  <2> DEFINE answer == [says |-> s.writes.is, of |-> Coord, at |-> Len(line'[Coord])]
  <2>1. /\ Apply(Coord, [Tip(Coord) EXCEPT !.rec = s.writes])
        /\ ~Is(Tip(Coord), "staging")
        /\ reply' = IF s.to = "driver" /\ pc = "asking" THEN answer ELSE reply
        /\ verdict' = [r \in Ranges |-> IF r = s.to THEN answer ELSE verdict[r]]
    BY <1>3 DEF SettleWrites, Is
  <2>2. /\ s.writes.is \in {"committed", "aborted"} /\ s.writes.is \in Says
        /\ s.to # None => pc # "idle" /\ ~Sent("open", Coord)
        /\ s.to # None /\ s.writes.is = "aborted" =>
              (s.to = "driver" /\ looked) \/ ~(Tip(Coord).fate = "kept" /\ Unset(Tip(Coord)))
    BY DEF Reading, ReadBy, Settles, Says, Standings
  <2> PICK e \in Entries :
              /\ Step(Coord, e) /\ e.rec = s.writes /\ e.rec # None /\ e.fate = Tip(Coord).fate
              /\ Decided(Tip(Coord).rec) => Tip(Coord).rec.is = s.writes.is
              /\ Is(e, "committed") => Is(Tip(Coord), "committed")
    BY <1>1, <1>3, <2>1, SettledStep
  <2>3. /\ Len(line'[Coord]) \in Nat /\ Len(line'[Coord]) \in 1 .. Len(line'[Coord])
        /\ line'[Coord][Len(line'[Coord])] = e /\ L' = line'[Coord]
        /\ looked' = looked /\ pc' = pc
    BY <1>1 DEF Step, Grown, L, LeaderStep
  <2>4. answer \in Replies
    BY <1>1, <2>2, <2>3 DEF Replies
  <2>5. ASSUME s.to # None, s.writes.is = "aborted", NEW p \in Nat, p = Len(line'[Coord])
        PROVE  Doomed(p)' \/ (s.to = "driver" /\ looked /\ Resolved')
    <3>1. Is(e, "aborted")
      BY <2>5 DEF Is
    <3>2. Doomed(p)' \/ (e.fate = "kept" /\ Resolved')
      BY <2>2, <2>5, <3>1, AbortedHere
    <3>3. e.fate = "kept" => Unset(Tip(Coord))
      <4>1. ~Is(Tip(Coord), "committed")
        BY <2>5 DEF Is, Decided
      <4> QED
        BY <4>1, TipRecord
    <3> QED
      BY <2>2, <2>5, <3>2, <3>3
  <2>6. ASSUME s.writes.is = "committed", NEW p \in Nat, p = Len(line'[Coord])
        PROVE  Committed(L'[p])
    BY <2>3, <2>6 DEF Committed, Is
  <2>7. reply' = reply \/ (reply' \in Replies \cup {None} /\ Replied')
    <3>1. CASE s.to = "driver" /\ pc = "asking"
      <4>1. reply' = answer
        BY <2>1, <3>1
      <4>2. reply'.says = s.writes.is /\ reply'.of = Coord /\ reply'.at = Len(line'[Coord])
        BY <4>1
      <4>3. s.to # None
        BY <3>1, AcrossAssumption
      <4>4. ASSUME NEW p \in Nat, p = reply'.at
            PROVE  ReplyAt(p)'
        BY <2>2, <2>3, <2>5, <2>6, <3>1, <4>2, <4>3, <4>4 DEF ReplyAt
      <4> QED
        BY <2>4, <4>1, <4>4 DEF Replied
    <3> QED
      BY <2>1, <3>1
  <2>8. verdict' \in [Ranges -> Replies \cup {None}]
    BY <1>1, <2>1, <2>4 DEF Typed
  <2>9. ASSUME NEW r \in Ranges
        PROVE  Answered(r)'
    <3>1. CASE r = s.to
      <4>1. /\ verdict'[r] = answer /\ s.to # None /\ s.to # "driver"
            /\ verdict'[r].says = s.writes.is /\ verdict'[r].of = Coord
            /\ verdict'[r].at = Len(line'[Coord])
        BY <2>1, <3>1, AcrossAssumption
      <4>2. ASSUME NEW p \in Nat, p = verdict'[r].at
            PROVE  VerdictAt(r, p)'
        BY <2>2, <2>3, <2>5, <2>6, <4>1, <4>2 DEF VerdictAt
      <4> QED
        BY <4>2 DEF Answered
    <3>2. CASE r # s.to
      <4>1. verdict'[r] = verdict[r]
        BY <2>1, <3>2
      <4> QED
        BY <1>1, <4>1, StepAnswers
    <3> QED
      BY <3>1, <3>2
  <2>10. Gathers'
    <3>1. /\ Decided(Tip(Coord).rec) => Decided(e.rec)
          /\ Is(e, "committed") => Is(Tip(Coord), "committed") \/ ~Decided(Tip(Coord).rec)
      BY <2>2 DEF Decided
    <3> QED
      BY <1>1, <3>1, StepGathers
  <2> QED
    BY <1>1, <2>7, <2>8, <2>9, <2>10, StepInv DEF Typed, Verdicts
<1> QED
  BY <1>2, <1>3

---------------------------------------------------------------------------
(* The specification.                                                      *)

LEMMA InitInv ==
    ASSUME Init
    PROVE  Inv
<1>1. /\ Coord \in Ranges /\ Merges \subseteq BOOLEAN
  BY AcrossAssumption
<1>2. PICK u \in Entries : u = Untouched
  BY DEF Untouched, Entries
<1>3. /\ u.rec = None /\ u.intent = FALSE /\ u.landed = FALSE /\ u.barred = FALSE
      /\ u.value = "read" /\ u.fate = None
  BY <1>2 DEF Untouched
<1>4. /\ line = [r \in Ranges |-> <<u>>]
      /\ <<u>> \in Seq(Entries) /\ Len(<<u>>) = 1 /\ <<u>>[1] = u
  BY <1>2 DEF Init
<1>5. \A r \in Ranges : /\ Len(line[r]) = 1 /\ line[r][1] = u
                        /\ Tip(r) = u /\ Kept(r) = u
  BY <1>4 DEF Tip, Kept
<1>6. /\ net = {} /\ pc = "idle" /\ merged \in BOOLEAN
      /\ known = {} /\ missed = {} /\ reply = None /\ told = None /\ looked = FALSE
      /\ overdue = FALSE /\ \A r \in Ranges : verdict[r] = None
      /\ recovering = FALSE /\ gone = {} /\ mishaps = 0
  BY <1>1 DEF Init
<1>7. ~Committed(u) /\ Unset(u) /\ \A w : ~Is(u, w)
  BY <1>3, NoneIsApart DEF Committed, Unset, Is
<1>8. /\ L = line[Coord] /\ Len(L) = 1 /\ L[1] = u
  BY <1>1, <1>5 DEF L
<1>9. Typed
  <2>1. line \in [Ranges -> Seq(Entries)] /\ \A r \in Ranges : Len(line[r]) >= 1
    BY <1>4, <1>5
  <2>2. trimmed \in [Ranges -> BOOLEAN] /\ verdict \in [Ranges -> Replies \cup {None}]
    BY DEF Init
  <2> QED
    BY <1>6, <2>1, <2>2 DEF Typed, Places
<1>10. Lines
  <2>1. Sound(u) /\ Keeps(u, u)
    BY <1>3, NoneIsApart DEF Sound, Keeps
  <2>2. \A r \in Ranges : \A k \in 1 .. Len(line[r]) : line[r][k] = u
    BY <1>5
  <2> QED
    BY <2>1, <2>2 DEF Lines
<1>11. Fates
  <2>1. \A r \in Ranges : \A k \in 1 .. Len(line[r]) : line[r][k] = u
    BY <1>5
  <2> QED
    BY <1>3, <2>1, NoneIsApart DEF Fates
<1>12. Records
  <2> SUFFICES ASSUME NEW k \in 1 .. Len(L)
               PROVE  Record(k)
    BY DEF Records
  <2>1. L[k] = u
    BY <1>8
  <2>2. u.fate # "kept" /\ ~u.landed
    BY <1>3, NoneIsApart
  <2> QED
    BY <1>7, <2>1, <2>2 DEF Record
<1>13. Asks
  <2>1. \A kind, r : ~Sent(kind, r)
    BY <1>6 DEF Sent
  <2>2. \A r \in Ranges : ~Tip(r).landed /\ ~Tip(r).barred
    BY <1>3, <1>5
  <2> QED
    BY <1>1, <1>6, <2>1, <2>2 DEF Asks
<1>14. Drives
  <2>1. told # "committed" /\ told # "aborted"
    BY <1>6, NoneIsApart
  <2> QED
    BY <1>6, <2>1 DEF Drives
<1>15. Replied /\ Verdicts
  BY <1>6 DEF Replied, Verdicts, Answered
<1>16. Recovers /\ Gathers
  BY <1>1, <1>5, <1>6, <1>7 DEF Recovers, Gathers
<1> QED
  BY <1>9, <1>10, <1>11, <1>12, <1>13, <1>14, <1>15, <1>16 DEF Inv

LEMMA StutterInv ==
    ASSUME Inv, UNCHANGED vars
    PROVE  Inv'
<1>1. /\ UNCHANGED <<line, trimmed, net, pc, merged, known, missed, reply, told, looked>>
      /\ UNCHANGED <<overdue, verdict, recovering, gone, mishaps>>
  BY DEF vars, driverVars, houseVars
<1>2. L' = L /\ Won' = Won /\ \A r \in Ranges : Tip(r)' = Tip(r) /\ Kept(r)' = Kept(r)
  BY <1>1 DEF L, Won, Everywhere, Kept, Tip
<1>3. Refused' = Refused /\ Resolved' = Resolved /\ Everywhere' = Everywhere
  BY <1>1 DEF Refused, Resolved, Everywhere, Kept
<1>4. \A kind, r : Sent(kind, r)' = Sent(kind, r)
  BY <1>1 DEF Sent
<1>5. \A p : Doomed(p)' = Doomed(p)
  BY <1>1, <1>2, <1>3, <1>4 DEF Doomed
<1>6. Typed' /\ Lines' /\ Fates'
  BY <1>1, <1>2, <1>5 DEF Inv, Typed, Lines, Fates
<1>7. Records'
  BY <1>1, <1>2, <1>3, <1>4 DEF Inv, Records, Record
<1>8. Asks'
  BY <1>1, <1>2, <1>3, <1>4, <1>5, AcrossAssumption DEF Inv, Asks
<1>9. Drives'
  BY <1>1, <1>2, <1>3, <1>4, <1>5 DEF Inv, Drives, Kept
<1>10. Replied'
  BY <1>1, <1>2, <1>3, <1>4, <1>5 DEF Inv, Replied, ReplyAt
<1>11. Verdicts'
  BY <1>1, <1>2, <1>5 DEF Inv, Verdicts, Answered, VerdictAt
<1>12. Recovers' /\ Gathers'
  BY <1>1 DEF Inv, Recovers, Gathers, Tip, Kept
<1> QED
  BY <1>6, <1>7, <1>8, <1>9, <1>10, <1>11, <1>12 DEF Inv

LEMMA NextInv ==
    ASSUME Inv, Reading, Next, Lingers = FALSE, ~overtaken'
    PROVE  Inv'
<1>1. CASE Driver
  <2>1. \/ Start \/ Finish \/ FinishParallel \/ Recover \/ Hear \/ GiveUp
        \/ \E r \in Ranges : HearPrepared(r) \/ MissPrepared(r)
    BY <1>1 DEF Driver
  <2> QED
    BY <2>1, StartInv, FinishInv, FinishParallelInv, RecoverInv, HearInv, GiveUpInv, PreparedInv
<1>2. CASE Leader
  <2>1. \/ Begin \/ Settle \/ Lookup \/ Conclude
        \/ \E kind \in {"open", "commit", "abort"} : Decide(kind)
        \/ \E s \in settling : SettleWrites(s)
        \/ \E r \in Ranges : \/ Prepare(r) \/ Bar(r)
                             \/ \E kind \in {"keep", "drop"} : ResolvePart(kind, r)
    BY <1>2 DEF Leader
  <2> QED
    BY <2>1, BeginInv, AskedInv, SettleWritesInv, ConcludeInv, DecideInv, PrepareInv, BarInv, ResolvePartInv
<1>3. CASE House
  <2>1. \/ HouseAbort \/ LaggardAsk \/ HouseRecover \/ HouseDecide \/ HouseForget
        \/ \E r \in Ranges : HouseAsk(r) \/ HouseResolve(r) \/ HouseBar(r) \/ HouseHolds(r)
    BY <1>3 DEF House
  <2> QED
    BY <2>1, HouseReadInv, HouseRecoverInv, HouseDecideInv, HouseForgetInv,
       HouseResolveInv, HouseBarInv, HouseHoldsInv
<1>4. CASE Around
  <2>1. \/ Lapse
        \/ \E r \in Ranges : Write(r) \/ Replicate(r) \/ Prune(r) \/ Failover(r)
    BY <1>4 DEF Around
  <2> QED
    BY <2>1, LapseInv, WriteInv, ReplicateInv, PruneInv, FailoverInv
<1> QED
  BY <1>1, <1>2, <1>3, <1>4 DEF Next

\* The invariant says what the properties say.
LEMMA WonIsWhole ==
    ASSUME Inv, Won
    PROVE  Everywhere
<1>1. 1 \in 1 .. Len(L) /\ Kept(Coord) = L[1] /\ merged \in BOOLEAN
  BY Entry DEF Inv, L, Kept, Typed
<1>2. Record(1)
  BY <1>1 DEF Inv, Records
<1> QED
  BY <1>1, <1>2 DEF Won, Record

LEMMA InvSafe ==
    ASSUME Inv
    PROVE  OneOutcome /\ ToldIsKept /\ NoLostUpdate /\ KeptIsWhole
<1>1. ~(Won /\ Doomed(1))
  BY WonIsNotDoomed
<1>2. \A r \in Ranges : /\ Tip(r).fate = "kept" => Won
                        /\ Tip(r).fate = "dropped" => Doomed(1)
                        /\ Sound(Tip(r))
  BY TipFacts
<1>3. OneOutcome
  BY <1>1, <1>2 DEF OneOutcome, WholeOutcome
<1>4. Won => \A r \in Ranges : Kept(r).landed
  BY WonIsWhole DEF Everywhere
<1>5. ToldIsKept
  BY <1>1, <1>2, <1>4 DEF Inv, Drives, ToldIsKept
<1>6. NoLostUpdate
  BY <1>2 DEF NoLostUpdate, Sound
<1>7. KeptIsWhole
  BY <1>2, <1>4 DEF KeptIsWhole
<1> QED
  BY <1>3, <1>5, <1>6, <1>7

---------------------------------------------------------------------------
(* What holds whatever settles are on their way, and however long an ask   *)
(* lingers: T commits only once a majority holds every part of it.         *)

\* A part once landed is so from there on; an intent guards the value T read.
Lasting ==
    \A r \in Ranges :
        /\ \A j, k \in 1 .. Len(line[r]) : j <= k /\ line[r][j].landed => line[r][k].landed
        /\ \A k \in 1 .. Len(line[r]) : line[r][k].intent => line[r][k].value = "read"

Commits(e) == e.fate = "kept" \/ Is(e, "committed")

\* Whatever says that T commits, once it is written, asked for, answered or told.
Sure ==
    /\ \A r \in Ranges : \A k \in 1 .. Len(line[r]) : Commits(line[r][k]) => Everywhere
    /\ \A r \in Ranges : \A kind \in {"keep", "conclude", "commit"} : Sent(kind, r) => Everywhere
    /\ told = "committed" => Everywhere
    /\ \A s \in settling : s.writes.is = "committed" => Everywhere
    /\ \A r \in Ranges : verdict[r] # None /\ verdict[r].says = "committed" => Everywhere
    /\ reply # None /\ reply.says = "committed" => Everywhere

\* The parts the driver knows of, and its way to the decision.
Knows ==
    /\ \A r \in known : Kept(r).landed
    /\ pc \in {"recovering", "asking", "barring"} => merged
    /\ pc = "deciding" /\ ~merged => known \cup missed = Ranges
    /\ reply # None /\ reply.says = "landed" =>
          reply.at \in 1 .. Len(line[reply.of]) /\ line[reply.of][reply.at].landed

Safe == TypeOK /\ Lasting /\ Sure /\ Knows

LEMMA SafeTyped ==
    ASSUME TypeOK
    PROVE  Typed
<1>1. verdict \in [Ranges -> Replies \cup {None}]
  BY DEF TypeOK
<1> QED
  BY <1>1 DEF TypeOK, Typed

LEMMA SafeTip ==
    ASSUME Safe, NEW r \in Ranges
    PROVE  /\ Typed /\ Tip(r) \in Entries /\ Tip(r).rec \in Recs \cup {None}
           /\ Commits(Tip(r)) => Everywhere
           /\ Tip(r).intent => Tip(r).value = "read"
           /\ Kept(r).landed => Tip(r).landed
<1>1. /\ Typed /\ Len(line[r]) \in Nat /\ Len(line[r]) >= 1 /\ Tip(r) \in Entries
  BY SafeTyped, Entry DEF Safe
<1>2. 1 \in 1 .. Len(line[r]) /\ Len(line[r]) \in 1 .. Len(line[r])
  BY <1>1
<1>3. Tip(r).rec \in Recs \cup {None}
  BY <1>1 DEF Entries
<1> QED
  BY <1>1, <1>2, <1>3 DEF Safe, Lasting, Sure, Tip, Kept

\* What a leader may add to its line.
Gains(r, e) ==
    /\ Grown(r, e)
    /\ Tip(r).landed => e.landed
    /\ e.intent => e.value = "read"
    /\ Commits(e) => Everywhere

LEMMA GainsNothing ==
    ASSUME Safe, NEW r \in Ranges, UNCHANGED line
    PROVE  Gains(r, Tip(r)) /\ Tip(r) \in Entries
  BY SafeTip, SameLine DEF Gains

LEMMA GainsRecord ==
    ASSUME Safe, NEW rec \in Recs \cup {None}, rec # None /\ rec.is = "committed" => Everywhere,
           Apply(Coord, [Tip(Coord) EXCEPT !.rec = rec])
    PROVE  \E e \in Entries : Gains(Coord, e) /\ e.rec = rec
<1>1. /\ Coord \in Ranges /\ Typed /\ Tip(Coord) \in Entries
      /\ Commits(Tip(Coord)) => Everywhere
      /\ Tip(Coord).intent => Tip(Coord).value = "read"
  BY SafeTip, AcrossAssumption
<1> PICK e \in Entries : e = [Tip(Coord) EXCEPT !.rec = rec]
  BY <1>1 DEF Entries
<1>2. /\ e.rec = rec /\ e.landed = Tip(Coord).landed /\ e.intent = Tip(Coord).intent
      /\ e.value = Tip(Coord).value /\ e.fate = Tip(Coord).fate
  BY <1>1 DEF Entries
<1>3. Grown(Coord, e)
  BY <1>1, Applied
<1> QED
  BY <1>1, <1>2, <1>3 DEF Gains, Commits, Is

LEMMA GainsResolved ==
    ASSUME Safe, NEW r \in Ranges, NEW f \in Entries, NEW c \in BOOLEAN, c => Everywhere,
           f.landed = Tip(r).landed, f.intent = Tip(r).intent, f.value = Tip(r).value,
           Commits(f) => Everywhere, Apply(r, Resolve(f, c))
    PROVE  \E e \in Entries : Gains(r, e) /\ e.rec = f.rec
<1>1. Typed /\ (Tip(r).intent => Tip(r).value = "read")
  BY SafeTip
<1>2. CASE ~f.intent
  <2>1. Grown(r, f)
    BY <1>1, <1>2, Applied DEF Resolve
  <2> QED
    BY <1>1, <1>2, <2>1 DEF Gains
<1>3. CASE f.intent
  <2> PICK e \in Entries : e = [f EXCEPT !.intent = FALSE,
                                          !.value = IF c THEN "T" ELSE @,
                                          !.fate = IF c THEN "kept" ELSE "dropped"]
    BY DEF Entries
  <2>1. /\ e.rec = f.rec /\ e.landed = f.landed /\ e.intent = FALSE
        /\ e.fate = IF c THEN "kept" ELSE "dropped"
    BY DEF Entries
  <2>2. Grown(r, e)
    BY <1>1, <1>3, Applied DEF Resolve
  <2>3. Commits(e) => Everywhere
    BY <2>1 DEF Commits, Is
  <2> QED
    BY <2>1, <2>2, <2>3 DEF Gains
<1> QED
  BY <1>2, <1>3

\* Every step that writes a line, the forgetting of the record aside, adds such a
\* place to it, and takes no committed record back.
Stays(r, e) == Is(Tip(r), "committed") => Is(e, "committed")

LEMMA RecordStays ==
    ASSUME Safe, NEW rec \in Recs, rec.is = "committed" => Everywhere,
           Accepts(Tip(Coord).rec, rec.is, FALSE), Apply(Coord, [Tip(Coord) EXCEPT !.rec = rec])
    PROVE  \E e \in Entries : Gains(Coord, e) /\ Stays(Coord, e) /\ e.rec = rec
<1>1. rec # None
  BY NoneIsApart
<1>2. Tip(Coord).rec # None /\ Tip(Coord).rec.is = "committed" => rec.is = "committed"
  BY DEF Accepts, Decided
<1>3. PICK e \in Entries : Gains(Coord, e) /\ e.rec = rec
  BY GainsRecord
<1> QED
  BY <1>1, <1>2, <1>3 DEF Stays, Is

LEMMA PartGains ==
    ASSUME Safe, NEW r \in Ranges, Prepare(r) \/ Bar(r) \/ HouseBar(r) \/ Write(r)
    PROVE  \E e \in Entries : Gains(r, e) /\ Stays(r, e)
<1>1. /\ Typed /\ Tip(r) \in Entries
      /\ Commits(Tip(r)) => Everywhere
      /\ Tip(r).intent => Tip(r).value = "read"
  BY SafeTip
<1>2. CASE UNCHANGED line
  <2>1. Stays(r, Tip(r))
    BY DEF Stays
  <2> QED
    BY <1>2, <2>1, GainsNothing
<1>3. ASSUME NEW e \in Entries, Apply(r, e), e.rec = Tip(r).rec, e.fate = Tip(r).fate,
             Tip(r).landed => e.landed, e.intent => e.value = "read"
      PROVE  \E f \in Entries : Gains(r, f) /\ Stays(r, f)
  <2>1. Grown(r, e)
    BY <1>1, <1>3, Applied
  <2>2. Gains(r, e) /\ Stays(r, e)
    BY <1>1, <1>3, <2>1 DEF Gains, Stays, Commits, Is
  <2> QED
    BY <2>2
<1>4. CASE Prepare(r)
  <2>1. CASE Unwritten(r) /\ ~Tip(r).intent /\ ~Barred(r)
    <3> PICK e \in Entries : e = [Tip(r) EXCEPT !.intent = TRUE, !.landed = TRUE]
      BY <1>1 DEF Entries
    <3>1. /\ e.rec = Tip(r).rec /\ e.fate = Tip(r).fate /\ e.landed /\ e.value = Tip(r).value
      BY <1>1 DEF Entries
    <3>2. Apply(r, e) /\ e.value = "read"
      BY <1>4, <2>1, <3>1 DEF Prepare, Unwritten
    <3> QED
      BY <1>3, <3>1, <3>2
  <2> QED
    BY <1>2, <1>4, <2>1 DEF Prepare
<1>5. CASE Bar(r) \/ HouseBar(r)
  <2>1. Prevent(r)
    BY <1>5 DEF Bar, HouseBar
  <2>2. CASE ~(Tip(r).landed \/ Barred(r))
    <3> PICK e \in Entries : e = [Tip(r) EXCEPT !.barred = TRUE]
      BY <1>1 DEF Entries
    <3>1. /\ e.rec = Tip(r).rec /\ e.fate = Tip(r).fate /\ e.landed = Tip(r).landed
          /\ e.value = Tip(r).value /\ e.intent = Tip(r).intent
      BY <1>1 DEF Entries
    <3>2. Apply(r, e)
      BY <2>1, <2>2 DEF Prevent
    <3> QED
      BY <1>1, <1>3, <3>1, <3>2
  <2> QED
    BY <1>2, <2>1, <2>2 DEF Prevent
<1>6. CASE Write(r)
  <2> PICK e \in Entries : e = [Tip(r) EXCEPT !.value = "other"]
    BY <1>1 DEF Entries
  <2>1. /\ e.rec = Tip(r).rec /\ e.fate = Tip(r).fate /\ e.landed = Tip(r).landed
        /\ e.intent = Tip(r).intent
    BY <1>1 DEF Entries
  <2>2. Apply(r, e) /\ ~e.intent
    BY <1>6, <2>1 DEF Write
  <2> QED
    BY <1>3, <2>1, <2>2
<1> QED
  BY <1>4, <1>5, <1>6

LEMMA BeginGains ==
    ASSUME Safe, Begin
    PROVE  \E e \in Entries : Gains(Coord, e) /\ Stays(Coord, e)
<1>1. /\ Typed /\ Coord \in Ranges /\ Tip(Coord) \in Entries
      /\ Commits(Tip(Coord)) => Everywhere
  BY SafeTip, AcrossAssumption
<1>2. CASE UNCHANGED line
  BY <1>1, <1>2, GainsNothing DEF Stays
<1>3. CASE line' # line
  <2> PICK rec \in Recs : rec = [is |-> "staging", of |-> Ranges]
    BY NoneIsApart DEF Standings
  <2>1. /\ Unwritten(Coord) /\ Accepts(Tip(Coord).rec, "staging", TRUE)
        /\ Apply(Coord, [Tip(Coord) EXCEPT !.rec = rec, !.intent = TRUE, !.landed = TRUE])
    BY <1>3 DEF Begin
  <2> PICK e \in Entries : e = [Tip(Coord) EXCEPT !.rec = rec, !.intent = TRUE, !.landed = TRUE]
    BY <1>1 DEF Entries
  <2>2. /\ e.rec = rec /\ e.landed /\ e.value = Tip(Coord).value /\ e.fate = Tip(Coord).fate
        /\ rec.is = "staging"
    BY <1>1 DEF Entries
  <2>3. Grown(Coord, e)
    BY <1>1, <2>1, Applied
  <2>4. ~Is(Tip(Coord), "committed") /\ e.value = "read"
    BY <2>1, <2>2 DEF Accepts, Decided, Unwritten, Is
  <2> QED
    BY <1>1, <2>2, <2>3, <2>4 DEF Gains, Stays, Commits, Is
<1> QED
  BY <1>2, <1>3

LEMMA DecideGains ==
    ASSUME Safe, \/ HouseDecide
                 \/ \E kind \in {"open", "commit", "abort"} : Decide(kind)
    PROVE  \E e \in Entries : Gains(Coord, e) /\ Stays(Coord, e)
<1>1. Coord \in Ranges
  BY AcrossAssumption
<1>2. CASE UNCHANGED line
  BY <1>1, <1>2, GainsNothing DEF Stays
<1>3. ASSUME NEW w \in Standings, w = "committed" => Everywhere,
             Accepts(Tip(Coord).rec, w, FALSE),
             Apply(Coord, [Tip(Coord) EXCEPT !.rec = [is |-> w, of |-> Ranges]])
      PROVE  \E e \in Entries : Gains(Coord, e) /\ Stays(Coord, e)
  <2> PICK rec \in Recs : rec = [is |-> w, of |-> Ranges]
    BY NoneIsApart
  <2>1. rec.is = w
    OBVIOUS
  <2> QED
    BY <1>3, <2>1, RecordStays
<1>4. CASE HouseDecide
  <2>1. Recovered \in Standings /\ (Recovered = "committed" => Everywhere)
    BY <1>4 DEF HouseDecide, Recovered, Everywhere, Standings
  <2> QED
    BY <1>2, <1>3, <1>4, <2>1 DEF HouseDecide
<1>5. ASSUME NEW kind \in {"open", "commit", "abort"}, Decide(kind)
      PROVE  \E e \in Entries : Gains(Coord, e) /\ Stays(Coord, e)
  <2>1. Decision(kind) \in Standings /\ (Decision(kind) = "committed" => kind = "commit")
    BY DEF Decision, Standings
  <2>2. kind = "commit" => Everywhere
    BY <1>1, <1>5 DEF Safe, Sure, Decide, Arrives, Sent
  <2> QED
    BY <1>2, <1>3, <1>5, <2>1, <2>2 DEF Decide
<1> QED
  BY <1>4, <1>5

LEMMA SettleGains ==
    ASSUME Safe, NEW s \in settling, SettleWrites(s)
    PROVE  \E e \in Entries : Gains(Coord, e) /\ Stays(Coord, e)
<1>1. Coord \in Ranges /\ s \in Settles /\ (s.writes.is = "committed" => Everywhere)
  BY AcrossAssumption DEF Safe, TypeOK, Sure
<1>2. s.writes \in Recs
  BY <1>1 DEF Settles, Recs, Standings
<1>3. CASE Accepts(Tip(Coord).rec, s.writes.is, FALSE)
  <2>1. Apply(Coord, [Tip(Coord) EXCEPT !.rec = s.writes])
    BY <1>3 DEF SettleWrites
  <2> QED
    BY <1>1, <1>2, <1>3, <2>1, RecordStays
<1>4. CASE ~Accepts(Tip(Coord).rec, s.writes.is, FALSE)
  <2>1. UNCHANGED line
    BY <1>4 DEF SettleWrites
  <2> QED
    BY <1>1, <2>1, GainsNothing DEF Stays
<1> QED
  BY <1>3, <1>4

LEMMA ResolveGains ==
    ASSUME Safe, NEW r \in Ranges,
           HouseResolve(r) \/ \E kind \in {"keep", "drop"} : ResolvePart(kind, r)
    PROVE  \E e \in Entries : Gains(r, e) /\ Stays(r, e)
<1>1. Tip(r) \in Entries /\ (Commits(Tip(r)) => Everywhere)
  BY SafeTip
<1>2. ASSUME NEW c \in BOOLEAN, c => Everywhere, Apply(r, Resolve(Tip(r), c))
      PROVE  \E e \in Entries : Gains(r, e) /\ Stays(r, e)
  BY <1>1, <1>2, GainsResolved DEF Stays, Is
<1>3. CASE HouseResolve(r)
  <2>1. PICK c \in BOOLEAN : c = (verdict[r].says = "committed")
    OBVIOUS
  <2>2. c => Everywhere
    BY <1>3, <2>1 DEF HouseResolve, Safe, Sure
  <2> QED
    BY <1>2, <1>3, <2>1, <2>2 DEF HouseResolve
<1>4. ASSUME NEW kind \in {"keep", "drop"}, ResolvePart(kind, r)
      PROVE  \E e \in Entries : Gains(r, e) /\ Stays(r, e)
  <2>1. PICK c \in BOOLEAN : c = (kind = "keep")
    OBVIOUS
  <2>2. c => Everywhere
    BY <1>4, <2>1 DEF ResolvePart, Arrives, Safe, Sure, Sent
  <2> QED
    BY <1>2, <1>4, <2>1, <2>2 DEF ResolvePart
<1> QED
  BY <1>3, <1>4

LEMMA ConcludeGains ==
    ASSUME Safe, Conclude
    PROVE  \E e \in Entries : Gains(Coord, e) /\ Stays(Coord, e)
<1>1. /\ Coord \in Ranges /\ Tip(Coord) \in Entries /\ (Commits(Tip(Coord)) => Everywhere)
  BY SafeTip, AcrossAssumption
<1>2. Everywhere
  BY <1>1 DEF Conclude, Arrives, Safe, Sure, Sent
<1>3. CASE UNCHANGED line
  BY <1>1, <1>3, GainsNothing DEF Stays
<1>4. CASE line' # line
  <2> PICK rec \in Recs : rec = [is |-> "committed", of |-> Ranges]
    BY NoneIsApart DEF Standings
  <2> PICK f \in Entries : f = [Tip(Coord) EXCEPT !.rec = rec]
    BY <1>1 DEF Entries
  <2>1. /\ f.rec = rec /\ f.landed = Tip(Coord).landed /\ f.intent = Tip(Coord).intent
        /\ f.value = Tip(Coord).value
    BY <1>1 DEF Entries
  <2>2. Apply(Coord, Resolve(f, TRUE))
    BY <1>4 DEF Conclude
  <2>3. PICK e \in Entries : Gains(Coord, e) /\ e.rec = f.rec
    BY <1>1, <1>2, <2>1, <2>2, GainsResolved
  <2> QED
    BY <2>1, <2>3, NoneIsApart DEF Stays, Is
<1> QED
  BY <1>3, <1>4

LEMMA ForgetGains ==
    ASSUME Safe, HouseForget
    PROVE  \E e \in Entries : Gains(Coord, e)
<1>1. PICK rec \in Recs \cup {None} : rec = None
  OBVIOUS
<1> QED
  BY <1>1, GainsRecord DEF HouseForget

\* What such a step leaves true, whatever answer it gives.
Quiet ==
    /\ net' \subseteq net
    /\ UNCHANGED <<trimmed, pc, merged, known, missed, told, looked, overdue>>
    /\ overtaken' \in BOOLEAN /\ recovering' \in BOOLEAN /\ gone' \subseteq Ranges /\ mishaps' \in Nat

LEMMA GainsSafe ==
    ASSUME Safe, NEW r \in Ranges, NEW e \in Entries, Gains(r, e), Quiet,
           \A s \in settling' : s \in Settles /\ (s.writes.is = "committed" => Everywhere),
           \A x \in Ranges : \/ verdict'[x] \in {verdict[x], None}
                             \/ /\ verdict'[x] \in Replies /\ verdict'[x].says \in {"committed", "aborted"}
                                /\ verdict'[x].says = "committed" => Everywhere,
           verdict' = [x \in Ranges |-> verdict'[x]],
           \/ reply' = reply
           \/ /\ reply' \in Replies
              /\ reply'.says = "committed" => Everywhere
              /\ reply'.says = "landed" => /\ reply'.at \in 1 .. Len(line'[reply'.of])
                                           /\ line'[reply'.of][reply'.at].landed
    PROVE  Safe'
<1>1. /\ Typed /\ Grown(r, e) /\ merged' = merged
      /\ \A x \in Ranges : Len(line[x]) \in Nat /\ Len(line[x]) >= 1
      /\ TypeOK /\ Lasting /\ Sure /\ Knows
  BY SafeTyped, Entry DEF Gains, Quiet, Safe
<1>2. (Everywhere' <=> Everywhere) /\ \A x \in Ranges : Kept(x)' = Kept(x)
  BY <1>1, GrownKeeps
<1>3. ASSUME NEW x \in Ranges, NEW k \in 1 .. Len(line'[x])
      PROVE  \/ k \in 1 .. Len(line[x]) /\ line'[x][k] = line[x][k]
             \/ x = r /\ k = Len(line'[x]) /\ line'[x][k] = e
  BY <1>1, <1>3 DEF Grown
<1>4. TypeOK'
  <2>1. verdict' \in [Ranges -> {ans \in Replies : ans.says \in {"committed", "aborted"}} \cup {None}]
    BY <1>1 DEF TypeOK
  <2>2. reply' \in Replies \cup {None}
    BY <1>1 DEF TypeOK
  <2>3. line' \in [Ranges -> Seq(Entries)] /\ \A x \in Ranges : Len(line'[x]) >= 1
    BY <1>1 DEF Grown
  <2> QED
    BY <1>1, <2>1, <2>2, <2>3 DEF TypeOK, Quiet
<1>5. Lasting'
  <2> SUFFICES ASSUME NEW x \in Ranges
               PROVE  /\ \A j, k \in 1 .. Len(line'[x]) : j <= k /\ line'[x][j].landed => line'[x][k].landed
                      /\ \A k \in 1 .. Len(line'[x]) : line'[x][k].intent => line'[x][k].value = "read"
    BY DEF Lasting
  <2>1. /\ \A j, k \in 1 .. Len(line[x]) : j <= k /\ line[x][j].landed => line[x][k].landed
        /\ \A k \in 1 .. Len(line[x]) : line[x][k].intent => line[x][k].value = "read"
        /\ Len(line'[x]) \in Nat
    BY <1>1 DEF Lasting, Grown
  <2>2. ASSUME NEW k \in 1 .. Len(line'[x])
        PROVE  line'[x][k].intent => line'[x][k].value = "read"
    BY <1>3, <2>1 DEF Gains
  <2>3. ASSUME NEW j \in 1 .. Len(line'[x]), NEW k \in 1 .. Len(line'[x]), j <= k, line'[x][j].landed
        PROVE  line'[x][k].landed
    <3>1. CASE k \in 1 .. Len(line[x]) /\ line'[x][k] = line[x][k]
      <4>1. j \in 1 .. Len(line[x])
        BY <1>1, <2>3, <3>1
      <4>2. line'[x][j] = line[x][j]
        BY <1>1, <4>1 DEF Grown
      <4> QED
        BY <2>1, <2>3, <3>1, <4>1, <4>2
    <3>2. CASE x = r /\ line'[x][k] = e
      <4>1. CASE j \in 1 .. Len(line[x]) /\ line'[x][j] = line[x][j]
        <5>1. Tip(r).landed
          BY <1>1, <2>1, <2>3, <3>2, <4>1 DEF Tip
        <5> QED
          BY <3>2, <5>1 DEF Gains
      <4> QED
        BY <1>3, <2>3, <3>2, <4>1
    <3> QED
      BY <1>3, <3>1, <3>2
  <2> QED
    BY <2>2, <2>3
<1>6. Sure'
  <2>1. ASSUME NEW x \in Ranges, NEW k \in 1 .. Len(line'[x])
        PROVE  Commits(line'[x][k]) => Everywhere
    BY <1>1, <1>3 DEF Sure, Gains
  <2>2. \A x \in Ranges : \A kind \in {"keep", "conclude", "commit"} : Sent(kind, x)' => Everywhere
    BY <1>1 DEF Sure, Quiet, Sent
  <2>3. told' = "committed" => Everywhere
    BY <1>1 DEF Sure, Quiet
  <2>4. \A x \in Ranges : verdict'[x] # None /\ verdict'[x].says = "committed" => Everywhere
    BY <1>1 DEF Sure
  <2>5. reply' # None /\ reply'.says = "committed" => Everywhere
    BY <1>1 DEF Sure
  <2> QED
    BY <1>2, <2>1, <2>2, <2>3, <2>4, <2>5 DEF Sure
<1>7. Knows'
  <2>1. reply' # None /\ reply'.says = "landed" =>
          reply'.at \in 1 .. Len(line'[reply'.of]) /\ line'[reply'.of][reply'.at].landed
    <3>1. CASE reply' = reply /\ reply # None /\ reply.says = "landed"
      <4>1. /\ reply.at \in 1 .. Len(line[reply.of]) /\ line[reply.of][reply.at].landed
            /\ reply.of \in Ranges
        BY <1>1, <3>1 DEF Knows, TypeOK, Replies
      <4>2. reply.at \in 1 .. Len(line'[reply.of]) /\ line'[reply.of][reply.at] = line[reply.of][reply.at]
        BY <1>1, <4>1 DEF Grown
      <4> QED
        BY <3>1, <4>1, <4>2
    <3> QED
      BY <3>1
  <2>2. known' = known /\ known \subseteq Ranges
    BY <1>1 DEF Quiet, TypeOK
  <2> QED
    BY <1>1, <1>2, <2>1, <2>2 DEF Knows, Quiet
<1> QED
  BY <1>4, <1>5, <1>6, <1>7 DEF Safe

\* What a settle has made of the record it reads.
LEMMA ReadsAre ==
    ASSUME Safe, NEW who \in Ranges \cup {"driver", None}, NEW s \in Reads(who)
    PROVE  /\ s \in Settles /\ s.to = who
           /\ s.writes = Settled(Tip(Coord).rec) /\ Settled(Tip(Coord).rec) # None
           /\ s.writes.is = "committed" => s.writes = Tip(Coord).rec /\ Everywhere
<1>1. /\ Coord \in Ranges /\ Tip(Coord).rec \in Recs \cup {None}
      /\ Commits(Tip(Coord)) => Everywhere
  BY SafeTip, AcrossAssumption
<1>2. /\ s = [to |-> who, writes |-> Settled(Tip(Coord).rec)]
      /\ Settled(Tip(Coord).rec) # None
  BY DEF Reads
<1>3. PICK w \in Recs : w = Settled(Tip(Coord).rec)
  BY <1>1, <1>2, SettledRecord
<1>4. /\ w.is \in {"committed", "aborted"}
      /\ w.is = "committed" => w = Tip(Coord).rec
  BY <1>1, <1>2, <1>3, SettledRecord
<1>5. w \in [is : {"committed", "aborted"}, of : SUBSET Ranges] /\ w # None
  BY <1>3, <1>4, NoneIsApart DEF Recs
<1>6. s = [to |-> who, writes |-> w]
  BY <1>2, <1>3
<1>7. s \in Settles /\ s.to = who /\ s.writes = w
  BY <1>5, <1>6 DEF Settles
<1> QED
  BY <1>1, <1>2, <1>3, <1>4, <1>5, <1>7 DEF Commits, Is

LEMMA LeaderSafe ==
    ASSUME Safe, Leader
    PROVE  Safe'
<1>1. /\ Coord \in Ranges /\ Typed /\ TypeOK /\ Sure
      /\ \A s \in settling : s \in Settles /\ (s.writes.is = "committed" => Everywhere)
      /\ verdict = [x \in Ranges |-> verdict[x]]
  BY AcrossAssumption, SafeTyped DEF Safe, TypeOK, Sure
<1>2. CASE Begin \/ Conclude
  <2>1. /\ Quiet /\ UNCHANGED <<settling, verdict, reply>>
    BY <1>1, <1>2 DEF Begin, Conclude, Arrives, Quiet, driverVars, houseVars, settleVars, TypeOK
  <2>2. PICK e \in Entries : Gains(Coord, e)
    BY <1>2, BeginGains, ConcludeGains
  <2> QED
    BY <1>1, <2>1, <2>2, GainsSafe
<1>3. ASSUME NEW r \in Ranges, \/ Prepare(r)
                               \/ \E kind \in {"keep", "drop"} : ResolvePart(kind, r)
      PROVE  Safe'
  <2>1. /\ Quiet /\ UNCHANGED <<settling, verdict, reply>>
    BY <1>1, <1>3 DEF Prepare, ResolvePart, Arrives, Quiet, driverVars, houseVars, settleVars, TypeOK
  <2>2. PICK e \in Entries : Gains(r, e)
    BY <1>3, PartGains, ResolveGains
  <2> QED
    BY <1>1, <2>1, <2>2, GainsSafe
<1>4. ASSUME NEW kind \in {"open", "commit", "abort"}, Decide(kind)
      PROVE  Safe'
  <2>1. Quiet /\ UNCHANGED <<settling, verdict>>
    BY <1>1, <1>4 DEF Decide, Arrives, Quiet, houseVars, settleVars, TypeOK
  <2>2. PICK e \in Entries : Gains(Coord, e)
    BY <1>4, DecideGains
  <2>3. /\ Tip(Coord).rec \in Recs \cup {None} /\ Len(line'[Coord]) \in Nat
        /\ Commits(Tip(Coord)) => Everywhere
    BY <1>1, <2>2, SafeTip DEF Gains, Grown
  <2>4. ASSUME reply' # reply
        PROVE  /\ reply' \in Replies /\ reply'.says # "landed"
               /\ reply'.says = "committed" => Everywhere
    <3>1. CASE Accepts(Tip(Coord).rec, Decision(kind), FALSE)
      <4>1. reply' = [says |-> "ok", of |-> Coord, at |-> Len(line'[Coord])]
        BY <1>4, <2>4, <3>1 DEF Decide, Answers
      <4> QED
        BY <1>1, <2>3, <4>1 DEF Replies, Says
    <3>2. CASE ~Accepts(Tip(Coord).rec, Decision(kind), FALSE)
      <4>1. PICK w : w = IF Tip(Coord).rec = None THEN "absent" ELSE Tip(Coord).rec.is
        OBVIOUS
      <4>2. reply' = [says |-> w, of |-> Coord, at |-> 1]
        BY <1>4, <2>4, <3>2, <4>1 DEF Decide, Answers
      <4>3. w \in Standings \cup {"absent"} /\ (w = "committed" => Everywhere)
        BY <2>3, <4>1 DEF Recs, Commits, Is
      <4> QED
        BY <1>1, <4>2, <4>3 DEF Replies, Says, Standings
    <3> QED
      BY <3>1, <3>2
  <2> QED
    BY <1>1, <2>1, <2>2, <2>4, GainsSafe
<1>5. CASE Settle \/ Lookup
  <2>1. /\ Quiet /\ UNCHANGED <<line, verdict>>
        /\ settling' \subseteq settling \cup Reads("driver")
    BY <1>1, <1>5 DEF Settle, Lookup, Arrives, Quiet, TypeOK
  <2>2. PICK e \in Entries : Gains(Coord, e)
    BY <1>1, <2>1, GainsNothing
  <2>3. \A s \in settling' : s \in Settles /\ (s.writes.is = "committed" => Everywhere)
    BY <1>1, <2>1, ReadsAre
  <2>4. Tip(Coord).rec \in Recs \cup {None}
    BY <1>1, SafeTip
  <2>5. ASSUME reply' # reply
        PROVE  reply' \in Replies /\ reply'.says # "landed" /\ reply'.says # "committed"
    <3>1. PICK w \in {"pending", "staging"} : reply' = [says |-> w, of |-> Coord, at |-> 1]
      <4>1. CASE Settle
        <5>1. Settled(Tip(Coord).rec) = None /\ reply' = [says |-> Tip(Coord).rec.is, of |-> Coord, at |-> 1]
          BY <2>5, <4>1 DEF Settle, Answers
        <5>2. Tip(Coord).rec # None /\ Tip(Coord).rec.is \in {"pending", "staging"}
          BY <2>4, <5>1, NoneIsApart, AcrossAssumption DEF Settled, Decided, Recs, Standings
        <5> QED
          BY <5>1, <5>2
      <4>2. CASE Lookup
        <5>1. PICK w : w = IF Tip(Coord).rec = None THEN "pending" ELSE Tip(Coord).rec.is
          OBVIOUS
        <5>2. ~Decided(Tip(Coord).rec) /\ reply' = [says |-> w, of |-> Coord, at |-> 1]
          BY <2>5, <4>2, <5>1 DEF Lookup, Answers
        <5>3. w \in {"pending", "staging"}
          BY <2>4, <5>1, <5>2 DEF Decided, Recs, Standings
        <5> QED
          BY <5>2, <5>3
      <4> QED
        BY <1>5, <4>1, <4>2
    <3> QED
      BY <1>1, <3>1 DEF Replies, Says, Standings
  <2> QED
    BY <1>1, <2>1, <2>2, <2>3, <2>5, GainsSafe
<1>6. ASSUME NEW s \in settling, SettleWrites(s)
      PROVE  Safe'
  <2>1. Quiet
    <3>1. overtaken' \in BOOLEAN
      <4>1. (overtaken \/ (Tip(Coord).rec # None /\ Tip(Coord).rec.is = "staging")) \in BOOLEAN
        OBVIOUS
      <4>2. overtaken \in BOOLEAN
        BY <1>1 DEF TypeOK
      <4>3. \/ overtaken' = overtaken
            \/ overtaken' = (overtaken \/ (Tip(Coord).rec # None /\ Tip(Coord).rec.is = "staging"))
        BY <1>6 DEF SettleWrites
      <4> QED
        BY <4>1, <4>2, <4>3
    <3> QED
      BY <1>1, <1>6, <3>1 DEF SettleWrites, Quiet, TypeOK
  <2>2. PICK e \in Entries : Gains(Coord, e)
    BY <1>6, SettleGains
  <2>3. /\ s \in Settles /\ s.to \in Ranges \cup {"driver", None} /\ s.writes.is \in {"committed", "aborted"}
        /\ s.writes.is = "committed" => Everywhere
    BY <1>1 DEF Settles
  <2>4. CASE Accepts(Tip(Coord).rec, s.writes.is, FALSE)
    <3>1. PICK answer : answer = [says |-> s.writes.is, of |-> Coord, at |-> Len(line'[Coord])]
      OBVIOUS
    <3>2. /\ answer \in Replies /\ answer.says \in {"committed", "aborted"} /\ answer.says # "landed"
          /\ answer.says = "committed" => Everywhere
      BY <1>1, <2>2, <2>3, <3>1 DEF Replies, Says, Standings, Gains, Grown
    <3>3. /\ settling' \subseteq settling /\ reply' \in {answer, reply}
          /\ verdict' = [r \in Ranges |-> IF r = s.to THEN answer ELSE verdict[r]]
      BY <1>6, <2>4, <3>1 DEF SettleWrites
    <3>4. /\ verdict' = [x \in Ranges |-> verdict'[x]]
          /\ \A x \in Ranges : verdict'[x] \in {answer, verdict[x]}
      BY <3>3
    <3> QED
      BY <1>1, <2>1, <2>2, <3>2, <3>3, <3>4, GainsSafe
  <2>5. CASE ~Accepts(Tip(Coord).rec, s.writes.is, FALSE)
    <3>1. /\ settling' \subseteq settling \cup Reads(s.to) /\ UNCHANGED <<reply, verdict>>
      BY <1>6, <2>5 DEF SettleWrites
    <3>2. \A t \in settling' : t \in Settles /\ (t.writes.is = "committed" => Everywhere)
      BY <1>1, <2>3, <3>1, ReadsAre
    <3> QED
      BY <1>1, <2>1, <2>2, <3>1, <3>2, GainsSafe
  <2> QED
    BY <2>4, <2>5
<1>7. ASSUME NEW r \in Ranges, Bar(r)
      PROVE  Safe'
  <2>1. Quiet /\ UNCHANGED <<settling, verdict>>
    BY <1>1, <1>7 DEF Bar, Arrives, Quiet, houseVars, settleVars, TypeOK
  <2>2. PICK e \in Entries : Gains(r, e)
    BY <1>7, PartGains
  <2>3. ASSUME reply' # reply
        PROVE  /\ reply' \in Replies /\ reply'.says # "committed"
               /\ reply'.says = "landed" => /\ reply'.at \in 1 .. Len(line'[reply'.of])
                                            /\ line'[reply'.of][reply'.at].landed
    <3>1. PICK w : w = IF Tip(r).landed THEN "landed" ELSE "barred"
      OBVIOUS
    <3>2. reply' = [says |-> w, of |-> r, at |-> Len(line'[r])]
      BY <1>7, <2>3, <3>1 DEF Bar, Answers
    <3>3. /\ Len(line'[r]) \in Nat /\ Len(line'[r]) \in 1 .. Len(line'[r])
          /\ line'[r][Len(line'[r])] = e
      BY <2>2 DEF Gains, Grown
    <3>4. w = "landed" => e.landed
      BY <2>2, <3>1 DEF Gains
    <3>5. w \in Says /\ w # "committed"
      BY <3>1 DEF Says
    <3> QED
      BY <3>2, <3>3, <3>4, <3>5 DEF Replies
  <2> QED
    BY <1>1, <2>1, <2>2, <2>3, GainsSafe
<1> QED
  BY <1>2, <1>3, <1>4, <1>5, <1>6, <1>7 DEF Leader

LEMMA HouseSafe ==
    ASSUME Safe, House \/ Lapse \/ \E r \in Ranges : Write(r)
    PROVE  Safe'
<1>1. /\ Coord \in Ranges /\ Typed /\ TypeOK /\ Sure
      /\ \A s \in settling : s \in Settles /\ (s.writes.is = "committed" => Everywhere)
      /\ verdict = [x \in Ranges |-> verdict[x]]
  BY AcrossAssumption, SafeTyped DEF Safe, TypeOK, Sure
<1>2. CASE HouseAbort \/ LaggardAsk \/ \E r \in Ranges : HouseAsk(r)
  <2>1. /\ Quiet /\ UNCHANGED <<line, verdict, reply>>
    BY <1>1, <1>2 DEF HouseAbort, LaggardAsk, HouseAsk, Quiet, driverVars, TypeOK
  <2>2. ASSUME NEW s \in settling', s \notin settling
        PROVE  \E who \in Ranges \cup {"driver", None} : s \in Reads(who)
    BY <1>2, <2>2 DEF HouseAbort, LaggardAsk, HouseAsk, Asked
  <2>3. \A s \in settling' : s \in Settles /\ (s.writes.is = "committed" => Everywhere)
    BY <1>1, <2>2, ReadsAre
  <2>4. PICK e \in Entries : Gains(Coord, e)
    BY <1>1, <2>1, GainsNothing
  <2> QED
    BY <1>1, <2>1, <2>3, <2>4, GainsSafe
<1>3. CASE HouseRecover \/ HouseDecide \/ \E r \in Ranges : HouseHolds(r)
  <2>1. /\ Quiet /\ UNCHANGED <<settling, verdict, reply>>
    BY <1>1, <1>3 DEF HouseRecover, HouseDecide, HouseHolds, Quiet, driverVars, settleVars, TypeOK
  <2>2. PICK e \in Entries : Gains(Coord, e)
    BY <1>1, <1>3, GainsNothing, DecideGains DEF HouseRecover, HouseHolds
  <2> QED
    BY <1>1, <2>1, <2>2, GainsSafe
<1>4. CASE HouseForget
  <2>1. /\ Quiet /\ UNCHANGED <<verdict, reply>> /\ settling' \subseteq settling
    BY <1>1, <1>4 DEF HouseForget, Quiet, driverVars, TypeOK
  <2> QED
    BY <1>1, <1>4, <2>1, ForgetGains, GainsSafe
<1>5. ASSUME NEW r \in Ranges, HouseResolve(r)
      PROVE  Safe'
  <2>1. /\ Quiet /\ UNCHANGED <<settling, reply>>
        /\ verdict' = [verdict EXCEPT ![r] = None]
    BY <1>1, <1>5 DEF HouseResolve, Quiet, driverVars, settleVars, TypeOK
  <2>2. /\ verdict' = [x \in Ranges |-> verdict'[x]]
        /\ \A x \in Ranges : verdict'[x] \in {verdict[x], None}
    BY <1>1, <2>1
  <2> QED
    BY <1>1, <1>5, <2>1, <2>2, ResolveGains, GainsSafe
<1>6. ASSUME NEW r \in Ranges, HouseBar(r) \/ Write(r)
      PROVE  Safe'
  <2>1. /\ Quiet /\ UNCHANGED <<settling, verdict, reply>>
    BY <1>1, <1>6 DEF HouseBar, Write, Quiet, driverVars, houseVars, settleVars, TypeOK
  <2> QED
    BY <1>1, <1>6, <2>1, PartGains, GainsSafe
<1>7. CASE Lapse
  <2>1. /\ UNCHANGED <<line, trimmed, net, driverVars, settleVars, verdict, recovering, gone, mishaps>>
        /\ overdue' \in BOOLEAN
    BY <1>7 DEF Lapse
  <2>2. TypeOK'
    BY <1>1, <2>1 DEF TypeOK, driverVars, settleVars
  <2> QED
    BY <2>1, <2>2 DEF Safe, Lasting, Sure, Knows, driverVars, settleVars, Everywhere, Kept, Sent
<1> QED
  BY <1>2, <1>3, <1>4, <1>5, <1>6, <1>7 DEF House

\* A step of the driver: the asks it adds, what it has heard and what it tells.
LEMMA DriverStepSafe ==
    ASSUME Safe, UNCHANGED <<line, trimmed, merged, houseVars, mishaps>>,
           net' \subseteq [kind : Kinds, range : Ranges],
           \A r \in Ranges : \A kind \in {"keep", "conclude", "commit"} :
               Ask(kind, r) \in net' => Sent(kind, r) \/ Everywhere,
           reply' \in {reply, None}, told' \in {told, "committed", "aborted", "doubt"},
           told' = "committed" => told = "committed" \/ Everywhere,
           looked' \in BOOLEAN, pc' \in Places, missed' \subseteq Ranges,
           known' \subseteq Ranges, \A r \in known' : Kept(r).landed,
           pc' \in {"recovering", "asking", "barring"} => merged,
           pc' = "deciding" /\ ~merged => known' \cup missed' = Ranges
    PROVE  Safe'
<1>1. TypeOK /\ Lasting /\ Sure /\ Knows
  BY DEF Safe
<1>2. /\ Everywhere' <=> Everywhere
      /\ \A r \in Ranges : Kept(r)' = Kept(r)
      /\ UNCHANGED <<overdue, settling, overtaken, verdict, recovering, gone>>
  BY DEF Everywhere, Kept, houseVars, settleVars
<1>3. TypeOK'
  BY <1>1, <1>2 DEF TypeOK
<1>4. Lasting'
  BY <1>1 DEF Lasting
<1>5. Sure'
  BY <1>1, <1>2 DEF Sure, Sent
<1>6. Knows'
  BY <1>1, <1>2 DEF Knows
<1> QED
  BY <1>3, <1>4, <1>5, <1>6 DEF Safe

LEMMA DriverSafe ==
    ASSUME Safe, Driver
    PROVE  Safe'
<1>1. /\ Typed /\ TypeOK /\ Sure /\ Knows /\ Coord \in Ranges /\ Everywhere \in BOOLEAN
      /\ merged \in BOOLEAN /\ overdue \in BOOLEAN /\ looked \in BOOLEAN
      /\ known \subseteq Ranges /\ missed \subseteq Ranges
  BY SafeTyped, AcrossAssumption DEF Safe, TypeOK, Everywhere
<1>2. known = Ranges => Everywhere
  BY <1>1 DEF Knows, Everywhere
<1>3. /\ \A r \in Ranges : \A kind \in {"keep", "conclude", "commit"} : Ask(kind, r) \notin Round \cup Dropping
      /\ Round \cup Dropping \cup Concluding \cup Keeping \subseteq [kind : Kinds, range : Ranges]
  BY <1>1, RoundAsks
<1>4. /\ net \subseteq [kind : Kinds, range : Ranges]
      /\ \A kind, r : Ask(kind, r) \in net => Sent(kind, r)
      /\ \A kind \in Kinds, r \in Ranges : Ask(kind, r) \in [kind : Kinds, range : Ranges]
  BY <1>1 DEF TypeOK, Sent, Ask
<1>5. CASE Start
  <2>1. /\ net' = net \cup IF merged THEN Round ELSE {Ask("open", Coord)}
        /\ pc' = IF merged THEN "preparing" ELSE "opening"
        /\ UNCHANGED <<line, trimmed, merged, known, missed, reply, told, looked, houseVars, mishaps>>
    BY <1>5 DEF Start
  <2>2. net' \subseteq [kind : Kinds, range : Ranges]
    BY <1>1, <1>3, <1>4, <2>1 DEF Kinds
  <2>3. \A r \in Ranges : \A kind \in {"keep", "conclude", "commit"} :
            Ask(kind, r) \in net' => Sent(kind, r)
    BY <1>3, <1>4, <2>1, AskIs
  <2> QED
    BY <1>1, <2>1, <2>2, <2>3, DriverStepSafe DEF Places, Knows
<1>6. CASE Finish
  <2>1. /\ net' = net \cup {Ask(IF missed = {} THEN "commit" ELSE "abort", Coord)}
        /\ pc' = "deciding" /\ known \cup missed = Ranges
        /\ UNCHANGED <<line, trimmed, merged, known, missed, reply, told, looked, houseVars, mishaps>>
    BY <1>6 DEF Finish
  <2>2. missed = {} => Everywhere
    BY <1>2, <2>1
  <2> QED
    BY <1>1, <1>4, <2>1, <2>2, AskIs, DriverStepSafe DEF Places, Kinds, Knows
<1>7. CASE FinishParallel
  <2>1. /\ known \cup missed = Ranges /\ merged
        /\ UNCHANGED <<line, trimmed, merged, known, missed, reply, houseVars, mishaps>>
    BY <1>7 DEF FinishParallel
  <2>2. CASE missed = {} /\ Tell("committed") /\ net' = net \cup Concluding /\ UNCHANGED looked
    BY <1>1, <1>2, <1>3, <1>4, <2>1, <2>2, DriverStepSafe DEF Places, Knows, Tell
  <2>3. CASE pc' = "recovering" /\ UNCHANGED <<net, told, looked>>
    BY <1>1, <1>4, <2>1, <2>3, DriverStepSafe DEF Places, Knows
  <2>4. CASE /\ pc' = "asking" /\ net' = net \cup {Ask(IF overdue THEN "lookup" ELSE "settle", Coord)}
             /\ looked' = overdue /\ UNCHANGED told
    BY <1>1, <1>4, <2>1, <2>4, AskIs, DriverStepSafe DEF Places, Kinds, Knows
  <2> QED
    BY <1>7, <2>2, <2>3, <2>4 DEF FinishParallel
<1>8. CASE Recover
  <2>1. /\ pc = "recovering" /\ merged
        /\ UNCHANGED <<line, trimmed, merged, known, missed, reply, looked, houseVars, mishaps>>
    BY <1>1, <1>8 DEF Recover, Knows
  <2>2. ASSUME NEW r \in Ranges, pc' = "barring" /\ net' = net \cup {Ask("bar", r)} /\ UNCHANGED told
        PROVE  Safe'
    BY <1>1, <1>4, <2>1, <2>2, AskIs, DriverStepSafe DEF Places, Kinds, Knows
  <2>3. CASE known = Ranges /\ Tell("committed") /\ net' = net \cup Concluding
    BY <1>1, <1>2, <1>3, <1>4, <2>1, <2>3, DriverStepSafe DEF Places, Knows, Tell
  <2> QED
    BY <1>8, <2>2, <2>3 DEF Recover
<1>9. CASE Hear
  <2>1. /\ reply # None /\ reply.at = 1 /\ reply' = None /\ reply \in Replies
        /\ UNCHANGED <<line, trimmed, merged, missed, looked, houseVars, mishaps>>
    BY <1>1, <1>9 DEF Hear, TypeOK
  <2>2. CASE pc' = "preparing" /\ net' = net \cup Round /\ UNCHANGED <<known, told>>
    BY <1>1, <1>3, <1>4, <2>1, <2>2, DriverStepSafe DEF Places, Knows
  <2>3. CASE pc = "asking" /\ pc' = "recovering" /\ UNCHANGED <<net, known, told>>
    BY <1>1, <1>4, <2>1, <2>3, DriverStepSafe DEF Places, Knows
  <2>4. CASE Tell("aborted") /\ net' = net \cup Dropping /\ UNCHANGED known
    BY <1>1, <1>3, <1>4, <2>1, <2>4, DriverStepSafe DEF Places, Knows, Tell
  <2>5. CASE reply.says = "committed" /\ Tell("committed") /\ UNCHANGED <<net, known>>
    BY <1>1, <1>4, <2>1, <2>5, DriverStepSafe DEF Places, Knows, Tell, Sure
  <2>6. CASE /\ pc = "barring" /\ reply.says = "landed" /\ pc' = "recovering"
             /\ known' = known \cup {reply.of} /\ UNCHANGED <<net, told>>
    <3>1. reply.of \in Ranges /\ Kept(reply.of).landed
      BY <1>1, <2>1, <2>6 DEF Knows, Kept, Replies
    <3> QED
      BY <1>1, <1>4, <2>1, <2>6, <3>1, DriverStepSafe DEF Places, Knows
  <2>7. CASE /\ pc = "barring" /\ pc' = "deciding" /\ net' = net \cup {Ask("abort", Coord)}
             /\ UNCHANGED <<known, told>>
    BY <1>1, <1>4, <2>1, <2>7, AskIs, DriverStepSafe DEF Places, Kinds, Knows
  <2>8. CASE /\ pc = "deciding" /\ ~merged /\ missed = {}
             /\ Tell("committed") /\ net' = net \cup Keeping /\ UNCHANGED known
    <3>1. Everywhere
      BY <1>1, <1>2, <2>8 DEF Knows
    <3> QED
      BY <1>1, <1>3, <1>4, <2>1, <2>8, <3>1, DriverStepSafe DEF Places, Knows, Tell
  <2>9. CASE Tell("aborted") /\ UNCHANGED <<net, known>>
    BY <1>1, <1>4, <2>1, <2>9, DriverStepSafe DEF Places, Knows, Tell
  <2> QED
    BY <1>9, <2>2, <2>3, <2>4, <2>5, <2>6, <2>7, <2>8, <2>9 DEF Hear
<1>10. CASE GiveUp
  <2>1. /\ reply' = None /\ told' \in {"aborted", "doubt"} /\ pc' = "done"
        /\ net' \in {net, net \cup Dropping}
        /\ UNCHANGED <<line, trimmed, merged, known, missed, looked, houseVars, mishaps>>
    BY <1>10 DEF GiveUp, Tell
  <2> QED
    BY <1>1, <1>3, <1>4, <2>1, DriverStepSafe DEF Places, Knows
<1>11. ASSUME NEW r \in Ranges, HearPrepared(r) \/ MissPrepared(r)
       PROVE  Safe'
  <2>1. /\ known' \subseteq Ranges /\ missed' \subseteq Ranges /\ \A x \in known' : Kept(x).landed
        /\ pc = "preparing" /\ pc' = pc
        /\ UNCHANGED <<line, trimmed, net, merged, reply, told, looked, houseVars, mishaps>>
    BY <1>1, <1>11 DEF HearPrepared, MissPrepared, Knows
  <2> QED
    BY <1>1, <1>4, <2>1, DriverStepSafe DEF Places
<1> QED
  BY <1>5, <1>6, <1>7, <1>8, <1>9, <1>10, <1>11 DEF Driver

\* A majority holds more of a line, or a new leader holds less of it.
LEMMA MoveSafe ==
    ASSUME Safe, NEW r \in Ranges, NEW d, NEW m, Moved(r, d, m),
           trimmed' \in [Ranges -> BOOLEAN], recovering' \in BOOLEAN, gone' \subseteq Ranges,
           mishaps' \in Nat, overtaken' = overtaken,
           \A t \in settling' : t \in Settles /\ \E s \in settling : t.writes = s.writes,
           verdict' = [x \in Ranges |-> verdict'[x]],
           \A x \in Ranges : \/ verdict'[x] = None
                             \/ verdict[x] # None /\ verdict'[x] \in Replies /\ verdict'[x].says = verdict[x].says,
           reply' = None \/ (/\ reply # None /\ reply' \in Replies
                             /\ reply'.says = reply.says /\ reply'.of = reply.of
                             /\ reply.of # r => reply'.at = reply.at
                             /\ reply.of = r /\ reply.at \in 1 .. Len(line[r]) =>
                                    reply'.at \in 1 .. m /\ reply.at <= reply'.at + d)
    PROVE  Safe'
<1>1. /\ TypeOK /\ Lasting /\ Sure /\ Knows /\ Typed
      /\ \A x \in Ranges : Len(line[x]) \in Nat /\ Len(line[x]) >= 1
  BY SafeTyped, Entry DEF Safe
<1>2. /\ d \in Nat /\ m \in Nat /\ m >= 1 /\ d + m <= Len(line[r]) /\ Len(line'[r]) = m
      /\ \A k \in 1 .. m : line'[r][k] = line[r][k + d]
      /\ \A x \in Ranges : x # r => line'[x] = line[x]
      /\ UNCHANGED <<net, pc, merged, known, missed, told, looked, overdue>>
  BY DEF Moved
<1>3. \A k \in 1 .. m : k + d \in 1 .. Len(line[r])
  BY <1>1, <1>2
<1>4. ASSUME NEW x \in Ranges, NEW k \in 1 .. Len(line'[x])
      PROVE  \E j \in 1 .. Len(line[x]) : line'[x][k] = line[x][j]
  <2>1. CASE x = r
    <3>1. k \in 1 .. m
      BY <1>2, <1>4, <2>1
    <3> QED
      BY <1>2, <1>3, <2>1, <3>1
  <2>2. CASE x # r
    BY <1>2, <1>4, <2>2
  <2> QED
    BY <2>1, <2>2
<1>5. ASSUME NEW x \in Ranges, Kept(x).landed
      PROVE  Kept(x)'.landed
  <2>1. CASE x = r
    <3>1. 1 \in 1 .. m /\ 1 + d \in 1 .. Len(line[r]) /\ 1 \in 1 .. Len(line[r]) /\ 1 <= 1 + d
      BY <1>1, <1>2, <1>3
    <3> QED
      BY <1>1, <1>2, <1>5, <2>1, <3>1 DEF Lasting, Kept
  <2> QED
    BY <1>2, <1>5, <2>1 DEF Kept
<1>6. Everywhere => Everywhere'
  BY <1>5 DEF Everywhere
<1>7. TypeOK'
  <2>1. verdict' \in [Ranges -> {ans \in Replies : ans.says \in {"committed", "aborted"}} \cup {None}]
    <3>1. \A x \in Ranges : verdict[x] # None => verdict[x].says \in {"committed", "aborted"}
      BY <1>1 DEF TypeOK
    <3> QED
      BY <3>1
  <2>2. line' \in [Ranges -> Seq(Entries)] /\ \A x \in Ranges : Len(line'[x]) >= 1
    BY <1>1, <1>2 DEF Moved
  <2> QED
    BY <1>1, <1>2, <2>1, <2>2 DEF TypeOK
<1>8. Lasting'
  <2>1. ASSUME NEW x \in Ranges, NEW k \in 1 .. Len(line'[x])
        PROVE  line'[x][k].intent => line'[x][k].value = "read"
    BY <1>1, <1>4 DEF Lasting
  <2>2. ASSUME NEW x \in Ranges, NEW j \in 1 .. Len(line'[x]), NEW k \in 1 .. Len(line'[x]),
               j <= k, line'[x][j].landed
        PROVE  line'[x][k].landed
    <3>1. CASE x = r
      <4>1. /\ j + d \in 1 .. Len(line[r]) /\ k + d \in 1 .. Len(line[r]) /\ j + d <= k + d
            /\ line'[r][j] = line[r][j + d] /\ line'[r][k] = line[r][k + d]
        BY <1>2, <1>3, <2>2, <3>1
      <4> QED
        BY <1>1, <2>2, <3>1, <4>1 DEF Lasting
    <3>2. CASE x # r
      BY <1>1, <1>2, <2>2, <3>2 DEF Lasting
    <3> QED
      BY <3>1, <3>2
  <2> QED
    BY <2>1, <2>2 DEF Lasting
<1>9. Sure'
  <2>1. ASSUME NEW x \in Ranges, NEW k \in 1 .. Len(line'[x])
        PROVE  Commits(line'[x][k]) => Everywhere
    BY <1>1, <1>4 DEF Sure
  <2>2. \A s \in settling' : s.writes.is = "committed" => Everywhere
    BY <1>1 DEF Sure
  <2>3. /\ \A x \in Ranges : verdict'[x] # None /\ verdict'[x].says = "committed" => Everywhere
        /\ reply' # None /\ reply'.says = "committed" => Everywhere
    BY <1>1 DEF Sure
  <2> QED
    BY <1>1, <1>2, <1>6, <2>1, <2>2, <2>3 DEF Sure, Sent
<1>10. Knows'
  <2>1. ASSUME reply' # None, reply'.says = "landed"
        PROVE  reply'.at \in 1 .. Len(line'[reply'.of]) /\ line'[reply'.of][reply'.at].landed
    <3>1. /\ reply # None /\ reply.says = "landed" /\ reply'.of = reply.of /\ reply.of \in Ranges
          /\ reply.at \in 1 .. Len(line[reply.of]) /\ line[reply.of][reply.at].landed
      BY <1>1, <2>1 DEF Knows, TypeOK, Replies
    <3>2. CASE reply.of = r
      <4>1. reply'.at \in 1 .. m /\ reply.at <= reply'.at + d
        BY <2>1, <3>1, <3>2
      <4>2. /\ reply'.at + d \in 1 .. Len(line[r])
            /\ line'[r][reply'.at] = line[r][reply'.at + d]
        BY <1>2, <1>3, <4>1
      <4>3. line[r][reply'.at + d].landed
        BY <1>1, <3>1, <3>2, <4>1, <4>2 DEF Lasting
      <4> QED
        BY <1>2, <3>1, <3>2, <4>1, <4>2, <4>3
    <3>3. CASE reply.of # r
      BY <1>2, <2>1, <3>1, <3>3
    <3> QED
      BY <3>2, <3>3
  <2> QED
    BY <1>1, <1>2, <1>5, <2>1 DEF Knows, TypeOK
<1> QED
  BY <1>7, <1>8, <1>9, <1>10 DEF Safe

LEMMA AroundSafe ==
    ASSUME Safe, NEW r \in Ranges, Replicate(r) \/ Failover(r) \/ Prune(r)
    PROVE  Safe'
<1>1. /\ TypeOK /\ Typed /\ line \in [Ranges -> Seq(Entries)]
      /\ Len(line[r]) \in Nat /\ Len(line[r]) >= 1 /\ line[r] \in Seq(Entries)
      /\ reply \in Replies \cup {None} /\ \A x \in Ranges : verdict[x] \in Replies \cup {None}
      /\ settling \subseteq Settles
  BY SafeTyped, Entry DEF Safe, TypeOK
<1>2. ASSUME Replicate(r)
      PROVE  Safe'
  <2>1. PICK n \in 2 .. Len(line[r]) :
            /\ line' = [line EXCEPT ![r] = SubSeq(@, n, Len(@))]
            /\ reply' = Nearer(reply, r, n)
            /\ verdict' = [s \in Ranges |-> Nearer(verdict[s], r, n)]
    BY <1>2 DEF Replicate
  <2>2. PICK d \in Nat, m \in Nat : d = n - 1 /\ m = Len(line[r]) - n + 1
    <3>1. n - 1 \in Nat /\ Len(line[r]) - n + 1 \in Nat
      BY <1>1
    <3> QED
      BY <3>1
  <2>3. /\ SubSeq(line[r], n, Len(line[r])) \in Seq(Entries)
        /\ Len(SubSeq(line[r], n, Len(line[r]))) = m
        /\ \A k \in 1 .. m : SubSeq(line[r], n, Len(line[r]))[k] = line[r][k + d]
    BY <1>1, <2>2
  <2>4. Moved(r, d, m)
    <3>1. /\ line'[r] = SubSeq(line[r], n, Len(line[r])) /\ line' \in [Ranges -> Seq(Entries)]
          /\ \A x \in Ranges : x # r => line'[x] = line[x]
      BY <1>1, <2>1, <2>3
    <3> QED
      BY <1>1, <1>2, <2>2, <2>3, <3>1 DEF Moved, Replicate
  <2>5. ASSUME NEW ans \in Replies \cup {None}, Nearer(ans, r, n) # None
        PROVE  LET new == Nearer(ans, r, n) IN
               /\ ans # None /\ new \in Replies /\ new.says = ans.says /\ new.of = ans.of
               /\ ans.of # r => new.at = ans.at
               /\ ans.of = r /\ ans.at \in 1 .. Len(line[r]) => new.at \in 1 .. m /\ ans.at <= new.at + d
    <3>1. ans # None /\ ans \in Replies
      BY <2>5 DEF Nearer
    <3>2. CASE ans.of = r
      <4>1. PICK a \in Nat : a = IF ans.at > n THEN ans.at - n + 1 ELSE 1
        BY <1>1, <3>1 DEF Replies
      <4>2. PICK new \in Replies : new = [ans EXCEPT !.at = a]
        BY <3>1 DEF Replies
      <4>3. new.says = ans.says /\ new.of = ans.of /\ new.at = a /\ Nearer(ans, r, n) = new
        BY <3>1, <3>2, <4>1, <4>2 DEF Replies, Nearer
      <4>4. ans.at \in 1 .. Len(line[r]) => a \in 1 .. m /\ ans.at <= a + d
        BY <1>1, <2>2, <4>1
      <4> QED
        BY <3>1, <3>2, <4>3, <4>4
    <3> QED
      BY <3>1, <3>2 DEF Nearer
  <2>6. /\ verdict' = [x \in Ranges |-> verdict'[x]]
        /\ \A x \in Ranges : verdict'[x] = Nearer(verdict[x], r, n)
    BY <2>1
  <2>7. UNCHANGED <<trimmed, settling, overtaken, recovering, gone, mishaps>>
    BY <1>2 DEF Replicate, settleVars
  <2> QED
    BY <1>1, <2>1, <2>4, <2>5, <2>6, <2>7, MoveSafe DEF TypeOK
<1>3. ASSUME Failover(r)
      PROVE  Safe'
  <2>1. PICK n \in 1 .. Len(line[r]) :
            /\ line' = [line EXCEPT ![r] = SubSeq(@, 1, n)]
            /\ reply' = Lost(reply, r, n)
            /\ verdict' = [s \in Ranges |-> IF s = r THEN None ELSE Lost(verdict[s], r, n)]
    BY <1>3 DEF Failover
  <2>2. PICK d \in Nat, m \in Nat : d = 0 /\ m = n
    BY <1>1
  <2>3. /\ SubSeq(line[r], 1, n) \in Seq(Entries) /\ Len(SubSeq(line[r], 1, n)) = m
        /\ \A k \in 1 .. m : SubSeq(line[r], 1, n)[k] = line[r][k + d]
    BY <1>1, <2>2
  <2>4. Moved(r, d, m)
    <3>1. /\ line'[r] = SubSeq(line[r], 1, n) /\ line' \in [Ranges -> Seq(Entries)]
          /\ \A x \in Ranges : x # r => line'[x] = line[x]
      BY <1>1, <2>1, <2>3
    <3> QED
      BY <1>1, <1>3, <2>2, <2>3, <3>1 DEF Moved, Failover
  <2>5. ASSUME NEW ans \in Replies \cup {None}, Lost(ans, r, n) # None
        PROVE  /\ Lost(ans, r, n) = ans /\ ans # None /\ ans \in Replies
               /\ ans.of = r /\ ans.at \in 1 .. Len(line[r]) => ans.at \in 1 .. m /\ ans.at <= ans.at + d
    <3>1. ans # None /\ ans \in Replies /\ Lost(ans, r, n) = ans /\ (ans.of = r => ~(ans.at > n))
      BY <2>5 DEF Lost
    <3> QED
      BY <1>1, <2>2, <3>1
  <2>6. /\ verdict' = [x \in Ranges |-> verdict'[x]]
        /\ \A x \in Ranges : verdict'[x] = None \/ verdict'[x] = Lost(verdict[x], r, n)
    BY <2>1
  <2>7. trimmed' \in [Ranges -> BOOLEAN]
    <3>1. PICK past \in {FALSE, (r \in Pruned)} : trimmed' = [trimmed EXCEPT ![r] = past]
      BY <1>3 DEF Failover
    <3>2. past \in BOOLEAN
      <4>1. (r \in Pruned) \in BOOLEAN
        OBVIOUS
      <4> QED
        BY <4>1
    <3> QED
      BY <1>1, <3>1, <3>2 DEF TypeOK
  <2>8. overtaken' = overtaken /\ mishaps' \in Nat /\ gone' \subseteq Ranges
    BY <1>1, <1>3 DEF Failover, TypeOK
  <2>9. recovering' \in BOOLEAN
    <3>1. recovering' = (recovering /\ r # Coord) /\ (recovering /\ r # Coord) \in BOOLEAN
      BY <1>3, Zenon DEF Failover
    <3> QED
      BY <3>1, Zenon
  <2>10. ASSUME NEW t \in settling'
         PROVE  t \in Settles /\ \E s \in settling : t.writes = s.writes
    <3>1. PICK s \in settling : t = [s EXCEPT !.to = IF @ = r THEN None ELSE @]
      BY <1>3, <2>10 DEF Failover
    <3>2. s \in Settles
      BY <1>1
    <3> QED
      BY <3>1, <3>2 DEF Settles
  <2> QED
    BY <1>1, <2>1, <2>4, <2>5, <2>6, <2>7, <2>8, <2>9, <2>10, MoveSafe
<1>4. ASSUME Prune(r)
      PROVE  Safe'
  <2>1. /\ UNCHANGED <<line, net, driverVars, houseVars, mishaps>>
        /\ trimmed' = [trimmed EXCEPT ![r] = TRUE]
    BY <1>4 DEF Prune
  <2>2. TypeOK'
    BY <1>1, <2>1 DEF TypeOK, driverVars, houseVars, settleVars
  <2> QED
    BY <2>1, <2>2 DEF Safe, Lasting, Sure, Knows, driverVars, houseVars, settleVars, Everywhere, Kept, Sent
<1> QED
  BY <1>2, <1>3, <1>4

LEMMA InitSafe ==
    ASSUME Init
    PROVE  Safe
<1>1. Inv
  BY InitInv
<1>2. /\ settling = {} /\ overtaken = FALSE /\ reply = None /\ told = None /\ pc = "idle" /\ known = {}
      /\ verdict = [r \in Ranges |-> None] /\ net = {}
  BY DEF Init
<1>3. Typed /\ Lines /\ Fates /\ Records /\ Coord \in Ranges
  BY <1>1, AcrossAssumption DEF Inv
<1>4. TypeOK
  BY <1>2, <1>3 DEF TypeOK, Typed
<1>5. Lasting
  BY <1>3 DEF Lines, Lasting, Sound, Keeps
<1>6. \A r \in Ranges : \A k \in 1 .. Len(line[r]) : line[r][k] = Untouched
  BY DEF Init
<1>7. ~Commits(Untouched)
  BY NoneIsApart DEF Untouched, Commits, Is
<1>8. Sure
  BY <1>2, <1>6, <1>7, NoneIsApart DEF Sure, Sent
<1>9. Knows
  BY <1>2 DEF Knows
<1> QED
  BY <1>4, <1>5, <1>8, <1>9 DEF Safe

LEMMA NextSafe ==
    ASSUME Safe, [Next]_vars
    PROVE  Safe'
<1>1. CASE Next
  BY <1>1, DriverSafe, LeaderSafe, HouseSafe, AroundSafe DEF Next, Around
<1>2. CASE UNCHANGED vars
  <2>1. TypeOK'
    BY <1>2 DEF Safe, TypeOK, vars, driverVars, houseVars, settleVars
  <2> QED
    BY <1>2, <2>1 DEF Safe, Lasting, Sure, Knows, vars, driverVars, houseVars, settleVars, Everywhere, Kept, Sent
<1> QED
  BY <1>1, <1>2

---------------------------------------------------------------------------
(* The settles on their way, from one state to the next.                   *)

\* What the state they were read in has in common with the next.
Onward ==
    /\ merged' = merged /\ (looked => looked') /\ (pc # "idle" => pc' # "idle")
    /\ Ask("open", Coord) \in net' => Sent("open", Coord) \/ pc = "idle"
    /\ Is(Tip(Coord), "committed") => Is(Tip(Coord), "committed")'
    /\ Tip(Coord)' = Tip(Coord) \/ Kept(Coord)' = Kept(Coord)

LEMMA ReadByKept ==
    ASSUME Inv, Inv', NEW s, ReadBy(s), Onward, NEW t \in Settles, t.writes = s.writes, t.to \in {s.to, None}
    PROVE  ReadBy(t)'
<1>1. Coord \in Ranges /\ Tip(Coord) \in Entries /\ (Kept(Coord).fate = "kept" => Tip(Coord).fate = "kept")
  BY AcrossAssumption, TipFacts, NoneIsApart DEF Keeps
<1>2. /\ Len(L') \in 1 .. Len(L') /\ Tip(Coord)' = L'[Len(L')] /\ Tip(Coord)' \in Entries
  <2>1. Typed' /\ line' \in [Ranges -> Seq(Entries)] /\ Len(line'[Coord]) >= 1
    BY <1>1 DEF Inv, Typed
  <2>2. line'[Coord] \in Seq(Entries)
    BY <1>1, <2>1
  <2> QED
    BY <2>1, <2>2 DEF L, Tip
<1>3. /\ Is(Tip(Coord)', "committed") => Tip(Coord)'.rec.of = Ranges
      /\ Tip(Coord)'.fate = "kept" => Is(Tip(Coord)', "committed") \/ (Unset(Tip(Coord)') /\ Resolved')
  <2>1. PICK k : k = Len(L')
    OBVIOUS
  <2>2. Record(k)'
    BY <1>2, <2>1 DEF Inv, Records
  <2> QED
    BY <1>2, <2>1, <2>2 DEF Record
<1>4. /\ Is(Tip(Coord), "committed") => Tip(Coord).rec.of = Ranges
      /\ Tip(Coord).fate = "kept" => Is(Tip(Coord), "committed") \/ Unset(Tip(Coord))
  BY TipRecord
<1>5. Is(Tip(Coord), "committed") => Is(Tip(Coord)', "committed") /\ Tip(Coord)'.rec = Tip(Coord).rec
  <2>1. Is(Tip(Coord), "committed") => Is(Tip(Coord)', "committed")
    BY DEF Onward, Is
  <2>2. /\ Is(Tip(Coord), "committed") => Tip(Coord).rec \in Recs
        /\ Is(Tip(Coord)', "committed") => Tip(Coord)'.rec \in Recs
    BY <1>1, <1>2 DEF Is, Entries
  <2>3. \A a, b \in Recs : a.is = b.is /\ a.of = b.of => a = b
    BY DEF Recs
  <2> QED
    BY <1>3, <1>4, <2>1, <2>2, <2>3 DEF Is
<1>6. t.writes.is = "committed" => t.writes = Tip(Coord)'.rec
  <2>1. t.writes.is = "committed" => Is(Tip(Coord), "committed") /\ t.writes = Tip(Coord).rec
    BY NoneIsApart DEF ReadBy, Is, Settles, Recs, Standings
  <2> QED
    BY <1>5, <2>1
<1>7. ASSUME t.to # None, t.writes.is = "aborted", ~(t.to = "driver" /\ looked'),
             Tip(Coord)'.fate = "kept", Unset(Tip(Coord)')
      PROVE  FALSE
  <2>1. ~(Tip(Coord).fate = "kept" /\ Unset(Tip(Coord)))
    BY <1>7 DEF ReadBy, Onward
  <2>2. ~Is(Tip(Coord)', "committed")
    BY <1>7 DEF Unset, Is
  <2>3. Kept(Coord)'.fate = "kept"
    BY <1>1, <1>3, <1>7, <2>2 DEF Resolved
  <2>4. Tip(Coord).fate = "kept"
    BY <1>1, <1>7, <2>3 DEF Onward
  <2> QED
    BY <1>4, <1>5, <2>1, <2>2, <2>4
<1>8. /\ t.to # None => pc' # "idle" /\ Ask("open", Coord) \notin net'
      /\ t.to = "driver" => merged'
  BY AcrossAssumption DEF ReadBy, Onward
<1>9. t.to # None /\ t.writes.is = "aborted" =>
          (t.to = "driver" /\ looked') \/ ~(Tip(Coord)'.fate = "kept" /\ Unset(Tip(Coord)'))
  BY <1>7
<1> QED
  BY <1>6, <1>8, <1>9 DEF ReadBy, Unset, Is, Sent

\* The settles that stood still do; the others are read in the step.
LEMMA ReadingKept ==
    ASSUME Inv, Inv', Reading, Onward,
           \A t \in settling' : t \in settling \/ ReadBy(t)'
    PROVE  Reading'
<1> SUFFICES ASSUME NEW t \in settling'
             PROVE  ReadBy(t)'
  BY DEF Reading
<1>1. CASE t \in settling
  <2>1. ReadBy(t) /\ t \in Settles
    BY <1>1 DEF Reading, ReadBy
  <2> QED
    BY <2>1, ReadByKept
<1> QED
  BY <1>1

\* A step that adds a place to a line leaves the settles as they were.
LEMMA GainsOnward ==
    ASSUME Inv, NEW r \in Ranges, NEW e \in Entries, Gains(r, e), Stays(r, e),
           merged' = merged, looked => looked', pc # "idle" => pc' # "idle",
           Ask("open", Coord) \in net' => Sent("open", Coord) \/ pc = "idle"
    PROVE  Onward
<1>1. /\ Coord \in Ranges /\ Kept(Coord)' = Kept(Coord)
      /\ r # Coord => Tip(Coord)' = Tip(Coord)
      /\ Tip(r)' = e
  BY AcrossAssumption, GrownKeeps DEF Gains, Inv
<1> QED
  BY <1>1 DEF Onward, Stays, Is

LEMMA StillOnward ==
    ASSUME UNCHANGED line,
           merged' = merged, looked => looked', pc # "idle" => pc' # "idle",
           Ask("open", Coord) \in net' => Sent("open", Coord) \/ pc = "idle"
    PROVE  Onward
  BY DEF Onward, Tip, Is

LEMMA DriverReading ==
    ASSUME Inv, Inv', Reading, Driver
    PROVE  Reading'
<1>1. /\ Coord \in Ranges /\ Typed /\ (pc = "preparing" => ~looked)
  BY AcrossAssumption DEF Inv, Drives
<1>2. \A kind, r : Ask(kind, r) \in Round \cup Dropping \cup Concluding \cup Keeping => kind # "open"
  BY <1>1, RoundAsks
<1>3. UNCHANGED line /\ settling' = settling /\ merged' = merged
  BY DEF Driver, Start, Finish, FinishParallel, Recover, Hear, GiveUp, HearPrepared, MissPrepared,
         houseVars, settleVars
<1>4. /\ looked => looked'
      /\ pc' # "idle"
  BY <1>1 DEF Driver, Start, Finish, FinishParallel, Recover, Hear, GiveUp, HearPrepared, MissPrepared, Tell
<1>5. Ask("open", Coord) \in net' => Sent("open", Coord) \/ pc = "idle"
  <2>1. CASE Start
    BY <2>1 DEF Start
  <2>2. CASE Finish \/ FinishParallel
    BY <1>2, <2>2, AskIs DEF Finish, FinishParallel, Sent
  <2>3. CASE Recover \/ GiveUp \/ \E r \in Ranges : HearPrepared(r) \/ MissPrepared(r)
    BY <1>2, <2>3, AskIs DEF Recover, GiveUp, HearPrepared, MissPrepared, Sent
  <2>4. CASE Hear
    BY <1>2, <2>4, AskIs DEF Hear, Sent
  <2> QED
    BY <2>1, <2>2, <2>3, <2>4 DEF Driver
<1> QED
  BY <1>3, <1>4, <1>5, StillOnward, ReadingKept

LEMMA LeaderReading ==
    ASSUME Safe, Inv, Inv', Reading, Leader
    PROVE  Reading'
<1>1. /\ Coord \in Ranges /\ Asks /\ Typed
      /\ UNCHANGED <<merged, looked, pc>> /\ net' \subseteq net
  BY AcrossAssumption DEF Inv, Leader, Begin, Settle, Lookup, Conclude, Decide, SettleWrites, Prepare, Bar,
     ResolvePart, Arrives, driverVars
<1>2. ASSUME NEW r \in Ranges, \E e \in Entries : Gains(r, e) /\ Stays(r, e)
      PROVE  Onward
  BY <1>1, <1>2, GainsOnward DEF Sent
<1>3. CASE Begin \/ Conclude \/ \E kind \in {"open", "commit", "abort"} : Decide(kind)
  <2>1. settling' = settling
    BY <1>3 DEF Begin, Conclude, Decide, houseVars, settleVars
  <2> QED
    BY <1>1, <1>2, <1>3, <2>1, BeginGains, ConcludeGains, DecideGains, ReadingKept
<1>4. ASSUME NEW r \in Ranges, \/ Prepare(r) \/ Bar(r)
                               \/ \E kind \in {"keep", "drop"} : ResolvePart(kind, r)
      PROVE  Reading'
  <2>1. settling' = settling
    BY <1>4 DEF Prepare, Bar, ResolvePart, houseVars, settleVars
  <2> QED
    BY <1>2, <1>4, <2>1, PartGains, ResolveGains, ReadingKept
<1>5. CASE Settle \/ Lookup
  <2>1. /\ UNCHANGED line /\ settling' \subseteq settling \cup Reads("driver")
        /\ Sent("settle", Coord) \/ (Sent("lookup", Coord) /\ looked)
    BY <1>1, <1>5 DEF Settle, Lookup, Arrives, Sent, Asks
  <2>2. merged /\ pc # "idle" /\ ~Sent("open", Coord) /\ merged \in BOOLEAN
    BY <1>1, <2>1 DEF Asks, Typed, Sent
  <2>3. Onward
    BY <1>1, <2>1, StillOnward DEF Sent
  <2>4. ASSUME NEW t \in Reads("driver")
        PROVE  ReadBy(t)'
    <3>1. /\ t \in Settles /\ t.to = "driver"
          /\ t.writes.is = "committed" => t.writes = Tip(Coord).rec
      BY ReadsAre
    <3>2. Tip(Coord)' = Tip(Coord)
      BY <2>1 DEF Tip
    <3>3. looked \/ ~(Tip(Coord).fate = "kept" /\ Unset(Tip(Coord)))
      BY <2>1, TipRecord
    <3> QED
      BY <1>1, <2>2, <3>1, <3>2, <3>3 DEF ReadBy, Sent, Unset, Is
  <2> QED
    BY <2>1, <2>3, <2>4, ReadingKept
<1>6. ASSUME NEW s \in settling, SettleWrites(s)
      PROVE  Reading'
  <2>1. Onward
    BY <1>1, <1>2, <1>6, SettleGains
  <2>2. ReadBy(s) /\ s \in Settles
    BY DEF Reading, ReadBy
  <2>3. CASE Accepts(Tip(Coord).rec, s.writes.is, FALSE)
    <3>1. settling' \subseteq settling
      BY <1>6, <2>3 DEF SettleWrites
    <3> QED
      BY <2>1, <3>1, ReadingKept
  <2>4. CASE ~Accepts(Tip(Coord).rec, s.writes.is, FALSE)
    <3>1. settling' \subseteq settling \cup Reads(s.to) /\ UNCHANGED line /\ UNCHANGED net
      BY <1>6, <2>4 DEF SettleWrites
    <3>2. s.to \in Ranges \cup {"driver", None} /\ s.writes.is \in {"committed", "aborted"}
      BY <2>2 DEF Settles
    <3>3. Tip(Coord).rec \in Recs \cup {None} /\ Tip(Coord)' = Tip(Coord)
      BY <1>1, <3>1, SafeTip DEF Tip
    <3>4. Is(Tip(Coord), "committed")
      <4>1. s.writes.is = "committed" => Is(Tip(Coord), "committed")
        BY <2>2, NoneIsApart DEF ReadBy, Settles, Is, Recs, Standings
      <4>2. s.writes.is = "aborted" => Is(Tip(Coord), "committed")
        BY <2>4, <3>3 DEF Accepts, Decided, Is, Recs, Standings
      <4> QED
        BY <3>2, <4>1, <4>2
    <3>5. ASSUME NEW t \in Reads(s.to)
          PROVE  ReadBy(t)'
      <4>1. t \in Settles /\ t.to = s.to /\ t.writes = Settled(Tip(Coord).rec)
        BY <3>2, ReadsAre
      <4>2. t.writes = Tip(Coord).rec /\ t.writes.is = "committed"
        BY <3>4, <4>1 DEF Settled, Decided, Is
      <4> QED
        BY <1>1, <2>2, <3>1, <3>3, <4>1, <4>2 DEF ReadBy, Sent
    <3> QED
      BY <2>1, <3>1, <3>5, ReadingKept
  <2> QED
    BY <2>3, <2>4
<1> QED
  BY <1>3, <1>4, <1>5, <1>6 DEF Leader

LEMMA HouseReading ==
    ASSUME Safe, Inv, Inv', Reading, House, Lingers = FALSE
    PROVE  Reading'
<1>1. /\ Coord \in Ranges /\ Asks /\ Typed
      /\ UNCHANGED <<merged, looked, pc>> /\ net' \subseteq net
  BY AcrossAssumption DEF Inv, House, HouseAbort, LaggardAsk, HouseRecover, HouseDecide, HouseForget,
     HouseAsk, HouseResolve, HouseBar, HouseHolds, driverVars
<1>2. ASSUME NEW r \in Ranges, \E e \in Entries : Gains(r, e) /\ Stays(r, e)
      PROVE  Onward
  BY <1>1, <1>2, GainsOnward DEF Sent
<1>3. UNCHANGED line => Onward
  BY <1>1, StillOnward DEF Sent
<1>4. CASE HouseForget
  BY <1>4 DEF HouseForget, Reading
<1>5. CASE HouseRecover \/ HouseDecide \/ \E r \in Ranges : HouseHolds(r)
  <2>1. settling' = settling
    BY <1>5 DEF HouseRecover, HouseDecide, HouseHolds, settleVars
  <2>2. Onward
    BY <1>1, <1>2, <1>3, <1>5, DecideGains DEF HouseRecover, HouseHolds
  <2> QED
    BY <2>1, <2>2, ReadingKept
<1>6. ASSUME NEW r \in Ranges, HouseResolve(r) \/ HouseBar(r)
      PROVE  Reading'
  <2>1. settling' = settling
    BY <1>6 DEF HouseResolve, HouseBar, houseVars, settleVars
  <2> QED
    BY <1>2, <1>6, <2>1, PartGains, ResolveGains, ReadingKept
<1>7. CASE HouseAbort \/ LaggardAsk
  <2>1. UNCHANGED line /\ settling' = settling \cup Reads(None)
    BY <1>7 DEF HouseAbort, LaggardAsk
  <2>2. ASSUME NEW t \in Reads(None)
        PROVE  ReadBy(t)'
    <3>1. /\ t \in Settles /\ t.to = None
          /\ t.writes.is = "committed" => t.writes = Tip(Coord).rec
      BY ReadsAre
    <3>2. Tip(Coord)' = Tip(Coord)
      BY <2>1 DEF Tip
    <3> QED
      BY <3>1, <3>2, AcrossAssumption DEF ReadBy
  <2> QED
    BY <1>3, <2>1, <2>2, ReadingKept
<1>8. ASSUME NEW r \in Ranges, HouseAsk(r)
      PROVE  Reading'
  <2>1. UNCHANGED line /\ settling' \subseteq settling \cup Reads(r) /\ Tip(r).intent
    BY <1>8 DEF HouseAsk, Asked
  <2>2. ASSUME NEW t \in Reads(r)
        PROVE  ReadBy(t)'
    <3>1. /\ t \in Settles /\ t.to = r
          /\ t.writes.is = "committed" => t.writes = Tip(Coord).rec
      BY ReadsAre
    <3>2. Tip(Coord)' = Tip(Coord)
      BY <2>1 DEF Tip
    <3>3. Tip(r).landed /\ Tip(r).fate = None
      BY <2>1, TipFacts DEF Sound
    <3>4. pc # "idle" /\ ~Sent("open", Coord)
      BY <1>1, <3>3 DEF Asks
    <3>5. ~(Tip(Coord).fate = "kept" /\ Unset(Tip(Coord)))
      <4>1. ~Resolved
        BY <3>3, TipFacts, NoneIsApart DEF Resolved, Keeps
      <4> QED
        BY <4>1, TipRecord DEF Unset, Is
    <3> QED
      BY <1>1, <3>1, <3>2, <3>4, <3>5, AcrossAssumption DEF ReadBy, Sent, Unset, Is
  <2> QED
    BY <1>3, <2>1, <2>2, ReadingKept
<1> QED
  BY <1>4, <1>5, <1>6, <1>7, <1>8 DEF House

LEMMA AroundReading ==
    ASSUME Safe, Inv, Inv', Reading, Around
    PROVE  Reading'
<1>1. /\ Coord \in Ranges /\ Typed
      /\ UNCHANGED <<merged, looked, pc, net>>
  BY AcrossAssumption DEF Inv, Around, Lapse, Write, Replicate, Prune, Failover, driverVars
<1>2. UNCHANGED line => Onward
  BY <1>1, StillOnward DEF Sent
<1>3. CASE Lapse \/ \E r \in Ranges : Prune(r)
  <2>1. UNCHANGED <<line, settling>>
    BY <1>3 DEF Lapse, Prune, houseVars, settleVars
  <2> QED
    BY <1>2, <2>1, ReadingKept
<1>4. ASSUME NEW r \in Ranges, Write(r)
      PROVE  Reading'
  <2>1. settling' = settling
    BY <1>4 DEF Write, houseVars, settleVars
  <2>2. Onward
    BY <1>1, <1>4, PartGains, GainsOnward DEF Sent
  <2> QED
    BY <2>1, <2>2, ReadingKept
<1>5. ASSUME NEW r \in Ranges, Replicate(r)
      PROVE  Reading'
  <2>1. settling' = settling
    BY <1>5 DEF Replicate, settleVars
  <2>2. PICK n \in 2 .. Len(line[r]) : line' = [line EXCEPT ![r] = SubSeq(@, n, Len(@))]
    BY <1>5 DEF Replicate
  <2>3. Tip(Coord)' = Tip(Coord)
    <3>1. line \in [Ranges -> Seq(Entries)] /\ line[r] \in Seq(Entries) /\ Len(line[r]) \in Nat
      BY <1>1, Entry DEF Typed
    <3>2. CASE r = Coord
      <4>1. line'[Coord] = SubSeq(line[r], n, Len(line[r]))
        BY <2>2, <3>1, <3>2
      <4>2. PICK m \in Nat : m = Len(line[r]) - n + 1
        <5>1. Len(line[r]) - n + 1 \in Nat
          BY <3>1
        <5> QED
          BY <5>1
      <4>3. /\ Len(SubSeq(line[r], n, Len(line[r]))) = m
            /\ SubSeq(line[r], n, Len(line[r]))[m] = line[r][Len(line[r])]
        BY <3>1, <4>2
      <4> QED
        BY <3>2, <4>1, <4>3 DEF Tip
    <3> QED
      BY <1>1, <2>2, <3>1, <3>2 DEF Tip
  <2>4. Onward
    BY <1>1, <2>3 DEF Onward, Sent, Is
  <2> QED
    BY <2>1, <2>4, ReadingKept
<1>6. ASSUME NEW r \in Ranges, Failover(r)
      PROVE  Reading'
  <2>1. CASE r = Coord
    BY <1>6, <2>1 DEF Failover, Reading
  <2>2. CASE r # Coord
    <3>1. Tip(Coord)' = Tip(Coord)
      BY <1>1, <1>6, <2>2 DEF Failover, Tip, Typed
    <3>2. Onward
      BY <1>1, <3>1 DEF Onward, Sent, Is
    <3>3. ASSUME NEW t \in settling'
          PROVE  ReadBy(t)'
      <4>1. PICK s \in settling : t = [s EXCEPT !.to = IF @ = r THEN None ELSE @]
        BY <1>6, <2>2, <3>3 DEF Failover
      <4>2. ReadBy(s) /\ s \in Settles
        BY DEF Reading, ReadBy
      <4>3. t \in Settles /\ t.writes = s.writes /\ t.to \in {s.to, None}
        BY <4>1, <4>2 DEF Settles
      <4> QED
        BY <3>2, <4>2, <4>3, ReadByKept
    <3> QED
      BY <3>3 DEF Reading
  <2> QED
    BY <2>1, <2>2
<1> QED
  BY <1>3, <1>4, <1>5, <1>6 DEF Around

\* What is overtaken stays so.
LEMMA OvertakenStays ==
    ASSUME Next, overtaken
    PROVE  overtaken'
<1>1. CASE Driver
  BY <1>1 DEF Driver, Start, Finish, FinishParallel, Recover, Hear, GiveUp, HearPrepared, MissPrepared,
              houseVars, settleVars
<1>2. CASE Leader
  BY <1>2 DEF Leader, Begin, Settle, Lookup, Conclude, Decide, SettleWrites, Prepare, Bar, ResolvePart,
              houseVars, settleVars
<1>3. CASE House
  BY <1>3 DEF House, HouseAbort, LaggardAsk, HouseRecover, HouseDecide, HouseForget, HouseAsk,
              HouseResolve, HouseBar, HouseHolds, houseVars, settleVars
<1>4. CASE Around
  BY <1>4 DEF Around, Lapse, Write, Replicate, Prune, Failover, houseVars, settleVars
<1> QED
  BY <1>1, <1>2, <1>3, <1>4 DEF Next

---------------------------------------------------------------------------
(* Theorems.                                                               *)

\* Whatever commits T - a record, an ask, an answer, what the caller is told - comes
\* after a majority holds every part (across.rs, parallel.rs, recovery.rs), whatever
\* settles overtake and however long an ask lingers.
THEOREM CommitsAreSure == Spec => []Safe
<1>1. Init => Safe
  BY InitSafe
<1>2. Safe /\ [Next]_vars => Safe'
  BY NextSafe
<1> QED
  BY <1>1, <1>2, PTL DEF Spec

\* The two outcomes, and what every record, ask, answer and fate is evidence of,
\* last through every step of driver, leaders, housekeeping and logs (across.rs,
\* parallel.rs, resolving.rs), until a settle's abort, decided on an older read,
\* replaces a staging record; provided no ask outlives the record's forgetting.
THEOREM Evidence == ~Lingers => (Spec => [](overtaken \/ (Inv /\ Reading)))
<1> SUFFICES ASSUME ~Lingers
             PROVE  Spec => [](overtaken \/ (Inv /\ Reading))
  OBVIOUS
<1>1. Lingers = FALSE
  BY AcrossAssumption
<1>2. Init => Inv /\ Reading
  <2>1. Init => Reading
    BY DEF Init, Reading
  <2> QED
    BY <2>1, InitInv
<1>3. Safe /\ (overtaken \/ (Inv /\ Reading)) /\ [Next]_vars => (overtaken \/ (Inv /\ Reading))'
  <2> SUFFICES ASSUME Safe, overtaken \/ (Inv /\ Reading), [Next]_vars, ~overtaken'
               PROVE  (Inv /\ Reading)'
    OBVIOUS
  <2>1. CASE Next
    <3>1. Inv /\ Reading
      BY <2>1, OvertakenStays
    <3>2. Inv'
      BY <1>1, <2>1, <3>1, NextInv
    <3>3. Reading'
      BY <1>1, <2>1, <3>1, <3>2, DriverReading, LeaderReading, HouseReading, AroundReading DEF Next
    <3> QED
      BY <3>2, <3>3
  <2>2. CASE UNCHANGED vars
    <3>1. /\ UNCHANGED <<line, net, pc, merged, looked, settling, overtaken>>
      BY <2>2 DEF vars, driverVars, houseVars, settleVars
    <3>2. Inv /\ Reading
      BY <3>1
    <3>3. Inv'
      BY <2>2, <3>2, StutterInv
    <3>4. Onward
      BY <3>1, StillOnward DEF Sent
    <3> QED
      BY <3>1, <3>2, <3>3, <3>4, ReadingKept
  <2> QED
    BY <2>1, <2>2
<1> QED
  BY <1>2, <1>3, CommitsAreSure, PTL DEF Spec

\* Every variable keeps the shape the code gives it: the lines and what they hold,
\* the driver's place and what it has heard, the settles on their way, and
\* housekeeping's answers, which are decisions alone (Db::settle_across).
THEOREM WellTyped == Spec => []TypeOK
<1>1. Safe => TypeOK
  BY DEF Safe
<1> QED
  BY <1>1, CommitsAreSure, PTL

\* No range keeps T's writes while another drops them (intents.rs, the record's
\* compare-and-set and the bars), for any number of ranges and changes of leader,
\* unless a settle's abort, decided on an older read, replaced a staging record.
THEOREM CommitsInOneWay == ~Lingers => (Spec => []OneOutcome)
<1>1. overtaken \/ (Inv /\ Reading) => OneOutcome
  BY InvSafe DEF OneOutcome
<1> QED
  BY <1>1, Evidence, PTL

\* What the driver told the caller stays true (finish_parallel answers after one
\* round and finishes behind the answer): the parts of a T told committed are held
\* for good in any case, and none is dropped unless a settle overtook T's begin.
THEOREM AnswersStand == ~Lingers => (Spec => []ToldIsKept)
<1>1. Safe /\ (overtaken \/ (Inv /\ Reading)) => ToldIsKept
  <2>1. Inv => ToldIsKept
    BY InvSafe
  <2>2. Safe /\ overtaken => ToldIsKept
    BY DEF Safe, Sure, Everywhere, ToldIsKept
  <2> QED
    BY <2>1, <2>2
<1> QED
  BY <1>1, Evidence, CommitsAreSure, PTL

\* Where T's intent stands, the value under it is the one T read
\* (written_since_seen, and the intent that refuses other writers).
THEOREM IntentsGuardReads == Spec => []NoLostUpdate
<1>1. Safe => NoLostUpdate
  BY SafeTip DEF NoLostUpdate
<1> QED
  BY <1>1, CommitsAreSure, PTL

\* A range keeps T only once a majority holds every part of it (D14a).
THEOREM KeepsOnlyWhole == Spec => []KeptIsWhole
<1>1. Safe => KeptIsWhole
  BY SafeTip DEF KeptIsWhole, Everywhere, Commits
<1> QED
  BY <1>1, CommitsAreSure, PTL
=============================================================================
