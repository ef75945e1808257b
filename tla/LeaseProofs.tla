----------------------------- MODULE LeaseProofs -----------------------------
(***************************************************************************)
(* Two nodes are never both inside their fences, for every cluster, lease, *)
(* guard and drift, as long as no voter starts again and the policy stays. *)
(*                                                                         *)
(* While a lease runs, on any clock, a majority still holds its grants for *)
(* the leader and no rival's round counts one of them.  The hard case is a *)
(* win that overwrites such a grant (Voter::carried): its own majority     *)
(* meets the leader's, and a round it overtakes is doomed: a majority has  *)
(* promised past it.                                                       *)
(***************************************************************************)
EXTENDS ElectionProofs

\* Every grant is held, and every lease lasts, for the one policy there is.
HoldsAlike ==
    \A n \in Nodes :
        /\ policy[n] = FirstPolicy /\ voter[n].hold = FirstPolicy
        /\ voter[n].granted # None => voter[n].granted.hold = FirstPolicy
        /\ round[n] # None => round[n].shortest = FirstPolicy /\ round[n].opened <= now
        /\ lease[n] # None => lease[n].length = FirstPolicy /\ lease[n].from <= now

\* A ballot is of an epoch its candidate has stood at, and a round of none below.
BallotsBehind ==
    /\ \A b \in ballots : \/ b.epoch <= stood[b.from]
                          \/ round[b.from] # None /\ b.epoch <= round[b.from].epoch
    /\ \A n \in Nodes : round[n] # None => stood[n] <= round[n].epoch

AreMajority(Q) == Q \in SUBSET Nodes /\ Cardinality(Q) >= Majority

\* Voter v will neither be counted by n's open round nor let it be carried.
Past(v, n) ==
    LET g == voter[v].granted IN
    /\ v \notin round[n].granted /\ g # None
    /\ g.epoch > round[n].epoch \/ (g.epoch = round[n].epoch /\ g.candidate # n)
Doomed(n) == \E P \in SUBSET Nodes : AreMajority(P) /\ \A v \in P : Past(v, n)

\* A voter some round counts has gone past it, or its grant is still the candidate's,
\* unless the voter has won that epoch itself.
CountedHolds ==
    \A n \in Nodes : round[n] # None => \A v \in round[n].granted :
        LET g == voter[v].granted IN
        /\ g # None /\ g.epoch >= round[n].epoch
        /\ g.epoch = round[n].epoch => g.candidate = n \/ (g.candidate = v /\ Doomed(n))

\* A lease dated from t is not over on any clock.
Running(t) == ~MayBeOver(now, t, FirstPolicy)

\* No other round that could still be carried at e or later counts v.
Unrivalled(v, n, e) ==
    \A m \in Nodes \ {n} : round[m] # None /\ round[m].epoch >= e /\ ~Doomed(m) => v \notin round[m].granted

\* Voter v keeps the promise that n's leadership at e, dated from t, was won with.
Backs(v, n, e, t) ==
    LET g == voter[v].granted IN
    g # None /\ g.candidate = n /\ g.epoch >= e /\ g.at >= t /\ Unrivalled(v, n, e)

RoundsBacked ==
    \A n \in Nodes : round[n] # None =>
        \/ ~Running(round[n].opened)
        \/ Doomed(n)
        \/ \A v \in round[n].granted :
             Backs(v, n, round[n].epoch, round[n].opened) /\ voter[v].granted.epoch = round[n].epoch

LeasesBacked ==
    \A n \in Nodes : lease[n] # None /\ Running(lease[n].from) =>
        /\ \E Q \in SUBSET Nodes : AreMajority(Q) /\ \A v \in Q : Backs(v, n, lease[n].epoch, lease[n].from)
        /\ \A p \in led : p[1] <= lease[n].epoch

\* A majority has granted at or above every epoch won.
LedStands ==
    \A e \in Epochs, n \in Nodes : <<e, n>> \in led =>
        \E P \in SUBSET Nodes : AreMajority(P) /\
            \A v \in P : voter[v].granted # None /\ voter[v].granted.epoch >= e

Fenced ==
    HoldsAlike /\ BallotsBehind /\ CountedHolds /\ LedStands /\ RoundsBacked /\ LeasesBacked

-----------------------------------------------------------------------------
LEMMA LedPairs ==
    ASSUME TypeOK, LedStands, NEW p \in led
    PROVE  /\ p[1] \in Int
           /\ \E P \in SUBSET Nodes : AreMajority(P) /\
                \A v \in P : voter[v].granted # None /\ voter[v].granted.epoch >= p[1]
<1>1. p \in Epochs \X Nodes
  BY DEF TypeOK
<1>2. p[1] \in Epochs /\ p[2] \in Nodes /\ p = <<p[1], p[2]>>
  BY <1>1
<1>3. p[1] \in Int
  BY <1>2, EpochsAreInts
<1>4. <<p[1], p[2]>> \in led
  BY <1>2
<1> QED
  BY <1>2, <1>3, <1>4 DEF LedStands

LEMMA MajoritiesMeet ==
    ASSUME NEW P, NEW Q, AreMajority(P), AreMajority(Q)
    PROVE  \E u \in Nodes : u \in P /\ u \in Q
<1>1. IsFiniteSet(P) /\ IsFiniteSet(Q) /\ IsFiniteSet(Nodes)
  BY Parameters, FS_Subset DEF AreMajority
<1>2. Cardinality(P) \in Nat /\ Cardinality(Q) \in Nat /\ Cardinality(Nodes) \in Nat
  BY <1>1, FS_CardinalityType
<1>3. Cardinality(P) + Cardinality(Q) > Cardinality(Nodes)
  BY <1>2 DEF Majority, AreMajority
<1>4. P \cap Q # {}
  BY <1>1, <1>3, FS_MajoritiesIntersect DEF AreMajority
<1> QED
  BY <1>4 DEF AreMajority

\* The types the arithmetic below needs.
LEMMA Dated ==
    ASSUME TypeOK
    PROVE  /\ now \in Int /\ FirstPolicy \in Int /\ Drift \in Int
           /\ \A n \in Nodes :
                /\ voter[n].granted # None => /\ voter[n].granted.epoch \in Int /\ voter[n].granted.at \in Int
                                              /\ voter[n].granted.hold \in Int
                /\ round[n] # None => /\ round[n].epoch \in Int /\ round[n].opened \in Int
                                      /\ round[n].granted \subseteq Nodes
                /\ lease[n] # None => lease[n].epoch \in Int /\ lease[n].from \in Int
<1>1. now \in Int /\ FirstPolicy \in Int /\ Drift \in Int
  BY Parameters DEF TypeOK
<1>2. \A n \in Nodes : voter[n].granted # None =>
         voter[n].granted.epoch \in Int /\ voter[n].granted.at \in Int /\ voter[n].granted.hold \in Int
  <2> SUFFICES ASSUME NEW n \in Nodes, voter[n].granted # None
               PROVE  voter[n].granted.epoch \in Int /\ voter[n].granted.at \in Int /\ voter[n].granted.hold \in Int
    OBVIOUS
  <2>1. voter[n] \in Voters
    BY DEF TypeOK
  <2>2. PICK g \in Grants : g = voter[n].granted
    BY <2>1 DEF Voters
  <2>3. g.epoch \in Epochs /\ g.at \in Int /\ g.hold \in Nat
    BY DEF Grants
  <2>4. g.epoch \in Int
    BY <2>3, EpochsAreInts
  <2>5. g.hold \in Int
    BY <2>3
  <2> QED
    BY <2>2, <2>3, <2>4, <2>5
<1>3. \A n \in Nodes : round[n] # None =>
         round[n].epoch \in Int /\ round[n].opened \in Int /\ round[n].granted \subseteq Nodes
  BY EpochsAreInts DEF TypeOK, Rounds
<1>4. \A n \in Nodes : lease[n] # None => lease[n].epoch \in Int /\ lease[n].from \in Int
  BY EpochsAreInts DEF TypeOK, Leaderships
<1> QED
  BY <1>1, <1>2, <1>3, <1>4

-----------------------------------------------------------------------------
(* Steps that grant nothing and win nothing.                               *)

QuietStep ==
    /\ now' \in {now, now + 1} /\ lease' = lease /\ led' = led
    /\ \A v \in Nodes : voter'[v].granted = voter[v].granted
    /\ \A n \in Nodes : round'[n] # None =>
         \/ round[n] = None /\ round'[n].granted = {}
         \/ /\ round[n] # None /\ round'[n].epoch = round[n].epoch
            /\ round'[n].opened = round[n].opened /\ round'[n].granted = round[n].granted

LEMMA QuietDoomed ==
    ASSUME QuietStep, NEW n \in Nodes, round[n] # None, round'[n] # None, Doomed(n)
    PROVE  Doomed(n)'
<1>1. PICK P \in SUBSET Nodes : AreMajority(P) /\ \A v \in P : Past(v, n)
  BY DEF Doomed
<1>2. round'[n].epoch = round[n].epoch /\ round'[n].granted = round[n].granted
  BY DEF QuietStep
<1>3. \A v \in P : Past(v, n)'
  BY <1>1, <1>2 DEF Past, QuietStep
<1> QED
  BY <1>1, <1>3 DEF Doomed, AreMajority

LEMMA QuietBacks ==
    ASSUME QuietStep, NEW v \in Nodes, NEW n \in Nodes, NEW e, NEW t, Backs(v, n, e, t)
    PROVE  Backs(v, n, e, t)'
<1>1. Unrivalled(v, n, e)'
  <2> SUFFICES ASSUME NEW m \in Nodes \ {n}, round'[m] # None, round'[m].epoch >= e, ~Doomed(m)',
                      v \in round'[m].granted
               PROVE  FALSE
    BY DEF Unrivalled
  <2>1. round[m] # None /\ round'[m].epoch = round[m].epoch /\ round'[m].granted = round[m].granted
    BY DEF QuietStep
  <2>2. ~Doomed(m)
    BY <2>1, QuietDoomed
  <2> QED
    BY <2>1, <2>2 DEF Backs, Unrivalled
<1> QED
  BY <1>1 DEF Backs, QuietStep

LEMMA QuietRunning ==
    ASSUME TypeOK, QuietStep, NEW t \in Int, Running(t)' PROVE Running(t)
BY Dated DEF QuietStep, Running, MayBeOver

LEMMA QuietFenced ==
    ASSUME TypeOK, QuietStep, CountedHolds, LedStands, RoundsBacked, LeasesBacked
    PROVE  CountedHolds' /\ LedStands' /\ RoundsBacked' /\ LeasesBacked'
<1>1. CountedHolds'
  <2> SUFFICES ASSUME NEW n \in Nodes, round'[n] # None, NEW v \in round'[n].granted
               PROVE  /\ voter'[v].granted # None /\ voter'[v].granted.epoch >= round'[n].epoch
                      /\ voter'[v].granted.epoch = round'[n].epoch =>
                           voter'[v].granted.candidate = n \/ (voter'[v].granted.candidate = v /\ Doomed(n)')
    BY DEF CountedHolds
  <2>1. round[n] # None /\ round'[n].epoch = round[n].epoch /\ v \in round[n].granted
    BY DEF QuietStep
  <2>2. v \in Nodes /\ voter'[v].granted = voter[v].granted
    BY <2>1, Dated DEF QuietStep
  <2>3. Doomed(n) => Doomed(n)'
    BY <2>1, QuietDoomed
  <2> QED
    BY <2>1, <2>2, <2>3 DEF CountedHolds
<1>2. LedStands'
  BY DEF LedStands, QuietStep, AreMajority
<1>3. RoundsBacked'
  <2> SUFFICES ASSUME NEW n \in Nodes, round'[n] # None, ~MayBeOver(now', round'[n].opened, FirstPolicy),
                      ~Doomed(n)', NEW v \in round'[n].granted
               PROVE  /\ Backs(v, n, round[n].epoch, round[n].opened)'
                      /\ voter'[v].granted.epoch = round'[n].epoch
    BY DEF RoundsBacked, Running, MayBeOver
  <2>1. /\ round[n] # None /\ round'[n].epoch = round[n].epoch /\ round'[n].opened = round[n].opened
        /\ v \in round[n].granted /\ v \in Nodes
    BY Dated DEF QuietStep
  <2>2. PICK e \in Int, t \in Int : e = round[n].epoch /\ t = round[n].opened
    BY <2>1, Dated
  <2>3. Running(t)'
    BY <2>1, <2>2 DEF Running, MayBeOver
  <2>4. Running(t) /\ ~Doomed(n)
    BY <2>1, <2>2, <2>3, QuietRunning, QuietDoomed
  <2>5. Backs(v, n, e, t) /\ voter[v].granted.epoch = e
    BY <2>1, <2>2, <2>4 DEF RoundsBacked
  <2>6. Backs(v, n, e, t)'
    BY <2>1, <2>5, QuietBacks
  <2>7. round'[n].epoch = e /\ round'[n].opened = t /\ voter'[v].granted.epoch = e
    BY <2>1, <2>2, <2>5 DEF QuietStep
  <2> QED
    BY <2>6, <2>7 DEF Backs, Unrivalled
<1>4. LeasesBacked'
  <2> SUFFICES ASSUME NEW n \in Nodes, lease'[n] # None, ~MayBeOver(now', lease'[n].from, FirstPolicy)
               PROVE  /\ \E Q \in SUBSET Nodes : AreMajority(Q) /\ \A v \in Q : Backs(v, n, lease[n].epoch, lease[n].from)'
                      /\ \A p \in led' : p[1] <= lease'[n].epoch
    BY DEF LeasesBacked, AreMajority, Running, MayBeOver
  <2>1. lease'[n] = lease[n] /\ led' = led
    BY DEF QuietStep
  <2>2. PICK e \in Int, t \in Int : e = lease[n].epoch /\ t = lease[n].from
    BY <2>1, Dated
  <2>3. Running(t)
    <3>1. Running(t)'
      BY <2>1, <2>2 DEF Running, MayBeOver
    <3> QED
      BY <3>1, QuietRunning
  <2>4. PICK Q \in SUBSET Nodes : AreMajority(Q) /\ \A v \in Q : Backs(v, n, e, t)
    BY <2>1, <2>2, <2>3 DEF LeasesBacked
  <2>5. \A v \in Q : Backs(v, n, e, t)'
    BY <2>4, QuietBacks
  <2>6. \A v \in Q : Backs(v, n, lease[n].epoch, lease[n].from)'
    BY <2>1, <2>2, <2>5 DEF Backs, Unrivalled
  <2>7. \A p \in led' : p[1] <= lease'[n].epoch
    BY <2>1, <2>2, <2>3 DEF LeasesBacked
  <2> QED
    BY <2>4, <2>6, <2>7
<1> QED
  BY <1>1, <1>2, <1>3, <1>4

-----------------------------------------------------------------------------
(* A vote given: voter v grants c at e, and c's round may count it.        *)

GiveStep(v, c, e) ==
    /\ v # c /\ UNCHANGED <<now, lease, led>>
    /\ voter[v].granted # None =>
         /\ voter[v].granted.epoch <= e
         /\ voter[v].granted.epoch = e => voter[v].granted.candidate = c
         /\ voter[v].granted.candidate # c => MayBeOver(now, voter[v].granted.at, FirstPolicy)
    /\ voter'[v].granted # None /\ voter'[v].granted.epoch = e
    /\ voter'[v].granted.candidate = c /\ voter'[v].granted.at = now
    /\ \A u \in Nodes \ {v} : voter'[u].granted = voter[u].granted
    /\ round[c] # None => e <= round[c].epoch
    /\ \A n \in Nodes : round'[n] # None =>
         /\ round[n] # None /\ round'[n].epoch = round[n].epoch /\ round'[n].opened = round[n].opened
         /\ \/ round'[n].granted = round[n].granted
            \/ n = c /\ round[n].epoch = e /\ round'[n].granted = round[n].granted \cup {v}

LEMMA GiveDoomed ==
    ASSUME TypeOK, NEW v \in Nodes, NEW c \in Nodes, NEW e \in Int, GiveStep(v, c, e),
           NEW n \in Nodes, round'[n] # None, Doomed(n)
    PROVE  Doomed(n)'
<1>1. PICK P \in SUBSET Nodes : AreMajority(P) /\ \A u \in P : Past(u, n)
  BY DEF Doomed
<1>2. round[n] # None /\ round'[n].epoch = round[n].epoch /\ round[n].epoch \in Int
  BY Dated DEF GiveStep
<1>3. ASSUME NEW u \in P PROVE Past(u, n)'
  <2>1. Past(u, n) /\ u \in Nodes
    BY <1>1
  <2>2. CASE u # v
    <3>1. u \notin round'[n].granted /\ voter'[u].granted = voter[u].granted
      BY <2>1, <2>2 DEF GiveStep, Past
    <3> QED
      BY <1>2, <2>1, <3>1 DEF Past
  <2>3. CASE u = v
    <3>1. /\ voter[v].granted # None /\ voter[v].granted.epoch \in Int /\ v \notin round[n].granted
          /\ \/ voter[v].granted.epoch > round[n].epoch
             \/ voter[v].granted.epoch = round[n].epoch /\ voter[v].granted.candidate # n
      BY <2>1, <2>3, Dated DEF Past
    <3>2. /\ voter[v].granted.epoch <= e
          /\ voter[v].granted.epoch = e => voter[v].granted.candidate = c
      BY <3>1 DEF GiveStep
    <3>3. e > round[n].epoch \/ (e = round[n].epoch /\ c # n)
      BY <1>2, <3>1, <3>2
    <3>4. v \notin round'[n].granted
      BY <1>2, <3>1, <3>3 DEF GiveStep
    <3> QED
      BY <1>2, <2>3, <3>3, <3>4 DEF Past, GiveStep
  <2> QED
    BY <2>2, <2>3
<1> QED
  BY <1>1, <1>3 DEF Doomed, AreMajority

LEMMA GiveBacks ==
    ASSUME TypeOK, NEW v \in Nodes, NEW c \in Nodes, NEW e \in Int, GiveStep(v, c, e),
           NEW u \in Nodes, NEW n \in Nodes, NEW d \in Int, NEW t \in Int,
           Running(t), t <= now, Backs(u, n, d, t)
    PROVE  Backs(u, n, d, t)' /\ (u = v => c = n)
<1>1. voter[u].granted # None /\ voter[u].granted.candidate = n
      /\ voter[u].granted.epoch >= d /\ voter[u].granted.at >= t
  BY DEF Backs
<1>2. voter[u].granted.epoch \in Int /\ voter[u].granted.at \in Int
      /\ now \in Int /\ FirstPolicy \in Int /\ Drift \in Int
  BY <1>1, Dated
<1>3. u = v => c = n
  <2> SUFFICES ASSUME u = v, c # n PROVE FALSE
    OBVIOUS
  <2>1. MayBeOver(now, voter[u].granted.at, FirstPolicy)
    BY <1>1 DEF GiveStep
  <2> QED
    BY <1>1, <1>2, <2>1 DEF MayBeOver, Running
<1>4. Unrivalled(u, n, d)'
  <2> SUFFICES ASSUME NEW m \in Nodes \ {n}, round'[m] # None, round'[m].epoch >= d, ~Doomed(m)',
                      u \in round'[m].granted
               PROVE  FALSE
    BY DEF Unrivalled
  <2>1. round[m] # None /\ round'[m].epoch = round[m].epoch
    BY DEF GiveStep
  <2>2. u \in round[m].granted
    BY <1>3 DEF GiveStep
  <2>3. ~Doomed(m)
    BY GiveDoomed
  <2> QED
    BY <2>1, <2>2, <2>3 DEF Backs, Unrivalled
<1>5. CASE u = v
  <2>1. voter'[u].granted # None /\ voter'[u].granted.epoch = e
        /\ voter'[u].granted.candidate = n /\ voter'[u].granted.at = now
    BY <1>3, <1>5 DEF GiveStep
  <2>2. voter[u].granted.epoch <= e
    BY <1>1, <1>5 DEF GiveStep
  <2>3. e >= d /\ now >= t
    BY <1>1, <1>2, <2>2
  <2> QED
    BY <1>3, <1>4, <2>1, <2>3 DEF Backs
<1>6. CASE u # v
  <2>1. voter'[u].granted = voter[u].granted
    BY <1>6 DEF GiveStep
  <2> QED
    BY <1>1, <1>4, <1>6, <2>1 DEF Backs
<1> QED
  BY <1>3, <1>5, <1>6

LEMMA GiveFenced ==
    ASSUME TypeOK, NEW v \in Nodes, NEW c \in Nodes, NEW e \in Int, GiveStep(v, c, e),
           HoldsAlike, CountedHolds, LedStands, RoundsBacked, LeasesBacked
    PROVE  CountedHolds' /\ LedStands' /\ RoundsBacked' /\ LeasesBacked'
<1>0. \A n \in Nodes : round'[n] # None =>
        /\ round[n] # None /\ round'[n].epoch = round[n].epoch /\ round'[n].opened = round[n].opened
        /\ round[n].epoch \in Int /\ round[n].opened \in Int /\ round[n].granted \subseteq Nodes
        /\ round[n].opened <= now
  BY Dated DEF GiveStep, HoldsAlike
<1>1. CountedHolds'
  <2> SUFFICES ASSUME NEW n \in Nodes, round'[n] # None, NEW u \in round'[n].granted
               PROVE  /\ voter'[u].granted # None /\ voter'[u].granted.epoch >= round'[n].epoch
                      /\ voter'[u].granted.epoch = round'[n].epoch =>
                           voter'[u].granted.candidate = n \/ (voter'[u].granted.candidate = u /\ Doomed(n)')
    BY DEF CountedHolds
  <2>1. CASE u # v
    <3>1. u \in round[n].granted
      BY <2>1 DEF GiveStep
    <3>2. u \in Nodes /\ voter'[u].granted = voter[u].granted
      BY <1>0, <2>1, <3>1 DEF GiveStep
    <3>3. Doomed(n) => Doomed(n)'
      BY GiveDoomed
    <3> QED
      BY <1>0, <3>1, <3>2, <3>3 DEF CountedHolds
  <2>2. CASE u = v /\ u \in round[n].granted
    <3>1. /\ voter[v].granted # None /\ voter[v].granted.epoch >= round[n].epoch
          /\ voter[v].granted.epoch = round[n].epoch => voter[v].granted.candidate \in {n, v}
      BY <1>0, <2>2 DEF CountedHolds
    <3>2. voter[v].granted.epoch \in Int
      BY <3>1, Dated
    <3>3. /\ voter[v].granted.epoch <= e
          /\ voter[v].granted.epoch = e => voter[v].granted.candidate = c
      BY <3>1 DEF GiveStep
    <3>4. e >= round[n].epoch /\ (e = round[n].epoch => c \in {n, v})
      BY <1>0, <3>1, <3>2, <3>3
    <3> QED
      BY <1>0, <2>2, <3>4 DEF GiveStep
  <2>3. CASE u = v /\ u \notin round[n].granted
    <3>1. n = c /\ round[n].epoch = e
      BY <2>3 DEF GiveStep
    <3> QED
      BY <1>0, <2>3, <3>1 DEF GiveStep
  <2> QED
    BY <2>1, <2>2, <2>3
<1>2. LedStands'
  <2> SUFFICES ASSUME NEW d \in Epochs, NEW n \in Nodes, <<d, n>> \in led'
               PROVE  \E P \in SUBSET Nodes : AreMajority(P) /\
                        \A u \in P : voter'[u].granted # None /\ voter'[u].granted.epoch >= d
    BY DEF LedStands, AreMajority
  <2>1. PICK P \in SUBSET Nodes : AreMajority(P) /\
          \A u \in P : voter[u].granted # None /\ voter[u].granted.epoch >= d
    BY DEF LedStands, GiveStep
  <2>2. d \in Int
    BY EpochsAreInts
  <2>3. ASSUME NEW u \in P PROVE voter'[u].granted # None /\ voter'[u].granted.epoch >= d
    <3>1. voter[u].granted # None /\ voter[u].granted.epoch >= d /\ voter[u].granted.epoch \in Int
      BY <2>1, Dated
    <3>2. CASE u = v
      <4>1. voter[u].granted.epoch <= e /\ voter'[u].granted.epoch = e /\ voter'[u].granted # None
        BY <3>1, <3>2 DEF GiveStep
      <4> QED
        BY <2>2, <3>1, <4>1
    <3>3. CASE u # v
      BY <3>1, <3>3 DEF GiveStep
    <3> QED
      BY <3>2, <3>3
  <2> QED
    BY <2>1, <2>3
<1>3. RoundsBacked'
  <2> SUFFICES ASSUME NEW n \in Nodes, round'[n] # None, ~MayBeOver(now', round'[n].opened, FirstPolicy),
                      ~Doomed(n)', NEW u \in round'[n].granted
               PROVE  /\ Backs(u, n, round[n].epoch, round[n].opened)'
                      /\ voter'[u].granted.epoch = round'[n].epoch
    BY DEF RoundsBacked, Running, MayBeOver
  <2>1. PICK d \in Int, t \in Int : d = round[n].epoch /\ t = round[n].opened
    BY <1>0
  <2>2. round'[n].epoch = d /\ round'[n].opened = t /\ t <= now /\ now' = now
    BY <1>0, <2>1 DEF GiveStep
  <2>3. Running(t) /\ ~Doomed(n)
    BY <2>2, GiveDoomed DEF Running, MayBeOver
  <2>4. CASE u \in round[n].granted
    <3>1. u \in Nodes /\ Backs(u, n, d, t) /\ voter[u].granted.epoch = d
      BY <1>0, <2>1, <2>3, <2>4 DEF RoundsBacked
    <3>2. Backs(u, n, d, t)' /\ (u = v => c = n)
      BY <2>2, <2>3, <3>1, GiveBacks
    <3>3. voter'[u].granted.epoch = d
      <4>1. CASE u = v
        <5>1. c = n /\ e <= d
          BY <1>0, <2>1, <3>2, <4>1 DEF GiveStep
        <5>2. d <= e
          BY <3>1, <4>1 DEF GiveStep, Backs
        <5> QED
          BY <4>1, <5>1, <5>2 DEF GiveStep
      <4> QED
        BY <3>1, <4>1 DEF GiveStep
    <3> QED
      BY <2>2, <3>2, <3>3 DEF Backs, Unrivalled
  <2>5. CASE u \notin round[n].granted
    <3>1. u = v /\ n = c /\ d = e
      BY <2>1, <2>5 DEF GiveStep
    <3>2. Unrivalled(v, c, e)'
      <4> SUFFICES ASSUME NEW m \in Nodes \ {c}, round'[m] # None, round'[m].epoch >= e,
                          v \in round'[m].granted
                   PROVE  FALSE
        BY DEF Unrivalled
      <4>1. round[m] # None /\ round[m].epoch \in Int /\ round[m].epoch >= e /\ v \in round[m].granted
        BY <1>0 DEF GiveStep
      <4>2. /\ voter[v].granted # None /\ voter[v].granted.epoch >= round[m].epoch
            /\ voter[v].granted.epoch = round[m].epoch => voter[v].granted.candidate \in {m, v}
        BY <4>1 DEF CountedHolds
      <4>3. voter[v].granted.epoch \in Int
        BY <4>2, Dated
      <4>4. /\ voter[v].granted.epoch <= e
            /\ voter[v].granted.epoch = e => voter[v].granted.candidate = c
        BY <4>2 DEF GiveStep
      <4>5. voter[v].granted.epoch = e /\ round[m].epoch = e
        BY <4>1, <4>2, <4>3, <4>4
      <4> QED
        BY <4>2, <4>4, <4>5 DEF GiveStep
    <3>3. Backs(v, c, e, t)'
      BY <2>2, <3>2, Dated DEF Backs, GiveStep
    <3> QED
      BY <2>2, <3>1, <3>3 DEF Backs, Unrivalled, GiveStep
  <2> QED
    BY <2>4, <2>5
<1>4. LeasesBacked'
  <2> SUFFICES ASSUME NEW n \in Nodes, lease'[n] # None, ~MayBeOver(now', lease'[n].from, FirstPolicy)
               PROVE  /\ \E Q \in SUBSET Nodes : AreMajority(Q) /\ \A u \in Q : Backs(u, n, lease[n].epoch, lease[n].from)'
                      /\ \A p \in led' : p[1] <= lease'[n].epoch
    BY DEF LeasesBacked, AreMajority, Running, MayBeOver
  <2>1. lease'[n] = lease[n] /\ led' = led /\ now' = now
    BY DEF GiveStep
  <2>2. PICK d \in Int, t \in Int : d = lease[n].epoch /\ t = lease[n].from
    BY <2>1, Dated
  <2>3. Running(t) /\ t <= now
    BY <2>1, <2>2 DEF Running, MayBeOver, HoldsAlike
  <2>4. PICK Q \in SUBSET Nodes : AreMajority(Q) /\ \A u \in Q : Backs(u, n, d, t)
    BY <2>1, <2>2, <2>3 DEF LeasesBacked
  <2>5. \A u \in Q : Backs(u, n, d, t)'
    BY <2>3, <2>4, GiveBacks
  <2>6. \A u \in Q : Backs(u, n, lease[n].epoch, lease[n].from)'
    BY <2>1, <2>2, <2>5 DEF Backs, Unrivalled
  <2>7. \A p \in led' : p[1] <= lease'[n].epoch
    BY <2>1, <2>2, <2>3 DEF LeasesBacked
  <2> QED
    BY <2>4, <2>6, <2>7
<1> QED
  BY <1>1, <1>2, <1>3, <1>4

-----------------------------------------------------------------------------
(* A round carried: n wins e, dated from t, by the votes Q.                *)

WinStep(n, e, t, Q) ==
    /\ round[n] # None /\ e = round[n].epoch /\ t = round[n].opened /\ n \notin round[n].granted
    /\ AreMajority(Q) /\ Q \subseteq round[n].granted \cup {n}
    /\ voter[n].granted # None =>
         /\ voter[n].granted.epoch <= e
         /\ n \in Q /\ voter[n].granted.candidate # n =>
              voter[n].granted.epoch # e /\ MayBeOver(t, voter[n].granted.at, FirstPolicy)
    /\ now' = now /\ led' = led \cup {<<e, n>>}
    /\ voter'[n].granted # None /\ voter'[n].granted.epoch = e
    /\ voter'[n].granted.candidate = n /\ voter'[n].granted.at = t
    /\ lease'[n] # None /\ lease'[n].epoch = e /\ lease'[n].from = t
    /\ round'[n] = None
    /\ \A m \in Nodes \ {n} : /\ voter'[m].granted = voter[m].granted
                              /\ round'[m] = round[m] /\ lease'[m] = lease[m]

\* No voter is counted by two rounds of one epoch.
Apart ==
    \A m, n \in Nodes : round[m] # None /\ round[n] # None /\ m # n /\ round[m].epoch = round[n].epoch =>
        round[m].granted \cap round[n].granted = {}

LEMMA VotableApart == ASSUME TypeOK, Votable PROVE Apart
BY DEF Votable, Agrees, RoundsAgree, Apart

LEMMA WonNotDoomed ==
    ASSUME TypeOK, NEW n \in Nodes, NEW e \in Int, NEW t \in Int, NEW Q, WinStep(n, e, t, Q)
    PROVE  ~Doomed(n)
<1> SUFFICES ASSUME NEW P \in SUBSET Nodes, AreMajority(P), \A u \in P : Past(u, n) PROVE FALSE
  BY DEF Doomed
<1>1. AreMajority(Q)
  BY DEF WinStep
<1>2. PICK u \in Nodes : u \in P /\ u \in Q
  BY <1>1, MajoritiesMeet
<1>3. Past(u, n) /\ u = n
  BY <1>2 DEF WinStep, Past
<1>4. voter[n].granted # None /\ voter[n].granted.epoch \in Int
  BY <1>3, Dated DEF Past
<1> QED
  BY <1>2, <1>3, <1>4 DEF WinStep, Past

LEMMA WinDoomed ==
    ASSUME TypeOK, NEW n \in Nodes, NEW e \in Int, NEW t \in Int, NEW Q, WinStep(n, e, t, Q),
           NEW m \in Nodes \ {n}, round[m] # None, Doomed(m)
    PROVE  Doomed(m)'
<1>1. PICK P \in SUBSET Nodes : AreMajority(P) /\ \A u \in P : Past(u, m)
  BY DEF Doomed
<1>2. round'[m] = round[m] /\ round[m].epoch \in Int
  BY Dated DEF WinStep
<1>3. ASSUME NEW u \in P PROVE Past(u, m)'
  <2>1. Past(u, m) /\ u \in Nodes
    BY <1>1
  <2>2. CASE u # n
    BY <1>2, <2>1, <2>2 DEF Past, WinStep
  <2>3. CASE u = n
    <3>1. /\ voter[n].granted # None /\ voter[n].granted.epoch \in Int /\ n \notin round[m].granted
          /\ voter[n].granted.epoch >= round[m].epoch
      BY <1>2, <2>1, <2>3, Dated DEF Past
    <3>2. e >= round[m].epoch
      BY <1>2, <3>1 DEF WinStep
    <3>3. e > round[m].epoch \/ e = round[m].epoch
      BY <1>2, <3>2
    <3> QED
      BY <1>2, <2>3, <3>1, <3>3 DEF Past, WinStep
  <2> QED
    BY <2>2, <2>3
<1> QED
  BY <1>1, <1>3 DEF Doomed, AreMajority

\* A vote a round is carried by backs no other leadership of the epoch or below that runs.
LEMMA WinMeetsNone ==
    ASSUME TypeOK, HoldsAlike, NEW n \in Nodes, NEW e \in Int, NEW t \in Int, NEW Q, WinStep(n, e, t, Q),
           NEW m \in Nodes \ {n}, NEW d \in Int, NEW s \in Int, Running(s), d <= e,
           NEW u \in Q, Backs(u, m, d, s)
    PROVE  FALSE
<1>1. CASE u \in round[n].granted
  <2>1. round[n] # None /\ round[n].epoch >= d /\ ~Doomed(n)
    BY WonNotDoomed DEF WinStep
  <2> QED
    BY <1>1, <2>1 DEF Backs, Unrivalled
<1>2. CASE u = n
  <2>1. /\ voter[n].granted # None /\ voter[n].granted.candidate # n /\ voter[n].granted.at >= s
    BY <1>2 DEF Backs
  <2>2. MayBeOver(t, voter[n].granted.at, FirstPolicy) /\ t <= now
    BY <1>2, <2>1 DEF WinStep, HoldsAlike
  <2>3. voter[n].granted.at \in Int /\ now \in Int /\ FirstPolicy \in Int /\ Drift \in Int
    BY <2>1, Dated
  <2> QED
    BY <2>1, <2>2, <2>3 DEF MayBeOver, Running
<1> QED
  BY <1>1, <1>2 DEF WinStep

LEMMA WinBacks ==
    ASSUME TypeOK, NEW n \in Nodes, NEW e \in Int, NEW t \in Int, NEW Q, WinStep(n, e, t, Q),
           NEW u \in Nodes \ {n}, NEW m \in Nodes, NEW d \in Int, NEW s \in Int, Backs(u, m, d, s)
    PROVE  Backs(u, m, d, s)'
<1>1. Unrivalled(u, m, d)'
  <2> SUFFICES ASSUME NEW k \in Nodes \ {m}, round'[k] # None, round'[k].epoch >= d, ~Doomed(k)',
                      u \in round'[k].granted
               PROVE  FALSE
    BY DEF Unrivalled
  <2>1. k # n /\ round'[k] = round[k]
    BY DEF WinStep
  <2>2. ~Doomed(k)
    BY <2>1, WinDoomed
  <2> QED
    BY <2>1, <2>2 DEF Backs, Unrivalled
<1> QED
  BY <1>1 DEF Backs, WinStep

\* The votes a round is carried by: counted ones hold the grant or are past it.
LEMMA WinVotes ==
    ASSUME TypeOK, CountedHolds, NEW n \in Nodes, NEW e \in Int, NEW t \in Int, NEW Q, WinStep(n, e, t, Q),
           NEW u \in Q
    PROVE  /\ u \in Nodes /\ voter'[u].granted # None /\ voter'[u].granted.epoch \in Int
           /\ voter'[u].granted.epoch >= e
           /\ voter'[u].granted.epoch = e => voter'[u].granted.candidate = n
<1>1. CASE u = n
  BY <1>1 DEF WinStep
<1>2. CASE u # n
  <2>1. u \in round[n].granted /\ round[n] # None /\ round[n].epoch = e /\ ~Doomed(n)
    BY <1>2, WonNotDoomed DEF WinStep
  <2>2. u \in Nodes
    BY <2>1, Dated
  <2>3. voter[u].granted # None /\ voter[u].granted.epoch >= e
        /\ (voter[u].granted.epoch = e => voter[u].granted.candidate = n)
    BY <2>1 DEF CountedHolds
  <2>4. voter[u].granted.epoch \in Int
    BY <2>2, <2>3, Dated
  <2> QED
    BY <1>2, <2>2, <2>3, <2>4 DEF WinStep
<1> QED
  BY <1>1, <1>2

\* A round none of whose voters carried the win, of its epoch or below, is doomed by it.
LEMMA WinDooms ==
    ASSUME TypeOK, CountedHolds, NEW n \in Nodes, NEW e \in Int, NEW t \in Int, NEW Q, WinStep(n, e, t, Q),
           NEW m \in Nodes \ {n}, round[m] # None, round[m].epoch <= e,
           \A u \in Q : u \notin round[m].granted
    PROVE  Doomed(m)'
<1>1. round'[m] = round[m] /\ round[m].epoch \in Int /\ AreMajority(Q) /\ Q \in SUBSET Nodes
  BY Dated DEF WinStep, AreMajority
<1>2. ASSUME NEW u \in Q PROVE Past(u, m)'
  <2>1. /\ voter'[u].granted # None /\ voter'[u].granted.epoch \in Int /\ voter'[u].granted.epoch >= e
        /\ voter'[u].granted.epoch = e => voter'[u].granted.candidate = n
    BY WinVotes
  <2>2. voter'[u].granted.epoch > round[m].epoch
        \/ (voter'[u].granted.epoch = round[m].epoch /\ voter'[u].granted.candidate # m)
    BY <1>1, <2>1
  <2> QED
    BY <1>1, <2>1, <2>2 DEF Past
<1> QED
  BY <1>1, <1>2 DEF Doomed, AreMajority

LEMMA WinFenced ==
    ASSUME TypeOK, NEW n \in Nodes, NEW e \in Int, NEW t \in Int, NEW Q, WinStep(n, e, t, Q), e \in Epochs,
           Apart, HoldsAlike, CountedHolds, LedStands, RoundsBacked, LeasesBacked
    PROVE  CountedHolds' /\ LedStands' /\ RoundsBacked' /\ LeasesBacked'
<1>0. \A m \in Nodes : round'[m] # None =>
        /\ m # n /\ round'[m] = round[m] /\ round[m].epoch \in Int /\ round[m].opened \in Int
        /\ round[m].granted \subseteq Nodes
  BY Dated DEF WinStep
<1>1. CountedHolds'
  <2> SUFFICES ASSUME NEW m \in Nodes, round'[m] # None, NEW u \in round'[m].granted
               PROVE  /\ voter'[u].granted # None /\ voter'[u].granted.epoch >= round'[m].epoch
                      /\ voter'[u].granted.epoch = round'[m].epoch =>
                           voter'[u].granted.candidate = m \/ (voter'[u].granted.candidate = u /\ Doomed(m)')
    BY DEF CountedHolds
  <2>1. m # n /\ u \in round[m].granted /\ round'[m] = round[m] /\ u \in Nodes /\ round[m] # None
    BY <1>0
  <2>2. Doomed(m) => Doomed(m)'
    BY <2>1, WinDoomed
  <2>3. /\ voter[u].granted # None /\ voter[u].granted.epoch >= round[m].epoch
        /\ voter[u].granted.epoch = round[m].epoch =>
             voter[u].granted.candidate = m \/ (voter[u].granted.candidate = u /\ Doomed(m))
    BY <2>1 DEF CountedHolds
  <2>4. CASE u # n
    BY <2>1, <2>2, <2>3, <2>4 DEF WinStep
  <2>5. CASE u = n
    <3>1. voter[n].granted.epoch \in Int /\ voter[n].granted.epoch <= e /\ round[m].epoch \in Int
      BY <1>0, <2>3, <2>5, Dated DEF WinStep
    <3>2. e >= round[m].epoch
      BY <2>3, <2>5, <3>1
    <3>3. ASSUME e = round[m].epoch PROVE Doomed(m)'
      <4>1. voter[n].granted.epoch = e
        BY <2>3, <2>5, <3>1, <3>3
      <4>2. CASE Doomed(m)
        BY <2>2, <4>2
      <4>3. CASE ~Doomed(m)
        <5>1. voter[n].granted.candidate = m /\ voter[n].granted # None
          BY <2>3, <2>5, <3>3, <4>1, <4>3
        <5>2. n \notin Q
          BY <2>1, <4>1, <5>1 DEF WinStep
        <5>3. \A k \in Q : k \notin round[m].granted
          BY <2>1, <3>3, <5>2 DEF WinStep, Apart
        <5> QED
          BY <2>1, <3>1, <3>3, <5>3, WinDooms
      <4> QED
        BY <4>2, <4>3
    <3> QED
      BY <2>1, <2>5, <3>2, <3>3 DEF WinStep
  <2> QED
    BY <2>4, <2>5
<1>2. LedStands'
  <2> SUFFICES ASSUME NEW d \in Epochs, NEW m \in Nodes, <<d, m>> \in led'
               PROVE  \E P \in SUBSET Nodes : AreMajority(P) /\
                        \A u \in P : voter'[u].granted # None /\ voter'[u].granted.epoch >= d
    BY DEF LedStands, AreMajority
  <2>1. CASE <<d, m>> \in led
    <3>1. PICK P \in SUBSET Nodes : AreMajority(P) /\
            \A u \in P : voter[u].granted # None /\ voter[u].granted.epoch >= d
      BY <2>1 DEF LedStands
    <3>2. d \in Int
      BY EpochsAreInts
    <3>3. ASSUME NEW u \in P PROVE voter'[u].granted # None /\ voter'[u].granted.epoch >= d
      <4>1. voter[u].granted # None /\ voter[u].granted.epoch >= d /\ voter[u].granted.epoch \in Int
        BY <3>1, Dated
      <4>2. CASE u = n
        <5>1. voter[u].granted.epoch <= e /\ voter'[u].granted.epoch = e /\ voter'[u].granted # None
          BY <4>1, <4>2 DEF WinStep
        <5> QED
          BY <3>2, <4>1, <5>1
      <4>3. CASE u # n
        BY <4>1, <4>3 DEF WinStep
      <4> QED
        BY <4>2, <4>3
    <3> QED
      BY <3>1, <3>3
  <2>2. CASE d = e /\ m = n
    <3>1. AreMajority(Q) /\ Q \in SUBSET Nodes
      BY DEF WinStep, AreMajority
    <3>2. \A u \in Q : voter'[u].granted # None /\ voter'[u].granted.epoch >= e
      BY WinVotes
    <3> QED
      BY <2>2, <3>1, <3>2
  <2> QED
    BY <2>1, <2>2 DEF WinStep
<1>3. RoundsBacked'
  <2> SUFFICES ASSUME NEW m \in Nodes, round'[m] # None, ~MayBeOver(now', round'[m].opened, FirstPolicy),
                      ~Doomed(m)', NEW u \in round'[m].granted
               PROVE  /\ Backs(u, m, round[m].epoch, round[m].opened)'
                      /\ voter'[u].granted.epoch = round'[m].epoch
    BY DEF RoundsBacked, Running, MayBeOver
  <2>1. m # n /\ round'[m] = round[m] /\ round[m] # None /\ u \in round[m].granted /\ u \in Nodes
    BY <1>0
  <2>2. PICK d \in Int, s \in Int : d = round[m].epoch /\ s = round[m].opened
    BY <1>0
  <2>3. Running(s) /\ ~Doomed(m)
    BY <2>1, <2>2, WinDoomed DEF Running, MayBeOver, WinStep
  <2>4. \A k \in round[m].granted : Backs(k, m, d, s) /\ voter[k].granted.epoch = d
    BY <2>1, <2>2, <2>3 DEF RoundsBacked
  <2>5. n \notin round[m].granted
    <3> SUFFICES ASSUME n \in round[m].granted PROVE FALSE
      OBVIOUS
    <3>1. d <= e
      BY <2>4 DEF WinStep, Backs
    <3>2. \A k \in Q : k \notin round[m].granted
      BY <2>1, <2>3, <2>4, <3>1, WinMeetsNone
    <3> QED
      BY <2>1, <2>2, <3>1, <3>2, WinDooms
  <2>6. Backs(u, m, d, s)' /\ voter'[u].granted.epoch = d
    <3>1. u \in Nodes \ {n} /\ Backs(u, m, d, s) /\ voter[u].granted.epoch = d
      BY <2>1, <2>4, <2>5
    <3>2. Backs(u, m, d, s)'
      BY <3>1, WinBacks
    <3> QED
      BY <3>1, <3>2 DEF WinStep
  <2> QED
    BY <2>1, <2>2, <2>6 DEF Backs, Unrivalled
<1>4. LeasesBacked'
  <2> SUFFICES ASSUME NEW m \in Nodes, lease'[m] # None, ~MayBeOver(now', lease'[m].from, FirstPolicy)
               PROVE  /\ \E P \in SUBSET Nodes : AreMajority(P) /\ \A u \in P : Backs(u, m, lease[m].epoch, lease[m].from)'
                      /\ \A p \in led' : p[1] <= lease'[m].epoch
    BY DEF LeasesBacked, AreMajority, Running, MayBeOver
  <2>1. CASE m # n
    <3>1. lease'[m] = lease[m] /\ now' = now /\ led' = led \cup {<<e, n>>}
      BY <2>1 DEF WinStep
    <3>2. PICK d \in Int, s \in Int : d = lease[m].epoch /\ s = lease[m].from
      BY <3>1, Dated
    <3>3. Running(s)
      BY <3>1, <3>2 DEF Running, MayBeOver
    <3>4. PICK P \in SUBSET Nodes : AreMajority(P) /\ \A u \in P : Backs(u, m, d, s)
      BY <3>1, <3>2, <3>3 DEF LeasesBacked
    <3>5. e < d
      <4> SUFFICES ASSUME d <= e PROVE FALSE
        OBVIOUS
      <4>1. PICK u \in Nodes : u \in P /\ u \in Q
        BY <3>4, MajoritiesMeet DEF WinStep
      <4> QED
        BY <2>1, <3>3, <3>4, <4>1, WinMeetsNone
    <3>6. n \notin P
      <4> SUFFICES ASSUME n \in P PROVE FALSE
        OBVIOUS
      <4>1. voter[n].granted # None /\ voter[n].granted.epoch >= d
        BY <3>4 DEF Backs
      <4>2. voter[n].granted.epoch \in Int /\ voter[n].granted.epoch <= e
        BY <4>1, Dated DEF WinStep
      <4> QED
        BY <3>5, <4>1, <4>2
    <3>7. \A u \in P : Backs(u, m, d, s)'
      BY <3>4, <3>6, WinBacks
    <3>8. \A u \in P : Backs(u, m, lease[m].epoch, lease[m].from)'
      BY <3>1, <3>2, <3>7 DEF Backs, Unrivalled
    <3>9. \A p \in led' : p[1] <= lease'[m].epoch
      BY <3>1, <3>2, <3>3, <3>5 DEF LeasesBacked
    <3> QED
      BY <3>4, <3>8, <3>9
  <2>2. CASE m = n
    <3>1. /\ lease'[n].epoch = e /\ lease'[n].from = t /\ now' = now /\ led' = led \cup {<<e, n>>}
          /\ round[n] # None /\ round[n].epoch = e /\ round[n].opened = t /\ n \notin round[n].granted
          /\ AreMajority(Q) /\ Q \in SUBSET Nodes
      BY DEF WinStep, AreMajority
    <3>2. Running(t)
      BY <2>2, <3>1 DEF Running, MayBeOver
    <3>3. \A v \in round[n].granted : Backs(v, n, e, t) /\ voter[v].granted.epoch = e
      BY <3>1, <3>2, WonNotDoomed DEF RoundsBacked
    <3>4. ASSUME NEW u \in Q PROVE Backs(u, n, e, t)'
      <4>1. CASE u # n
        BY <3>1, <3>3, <4>1, WinBacks DEF WinStep
      <4>2. CASE u = n
        <5>1. Unrivalled(n, n, e)'
          <6> SUFFICES ASSUME NEW k \in Nodes \ {n}, round'[k] # None, round'[k].epoch >= e, ~Doomed(k)',
                              n \in round'[k].granted
                       PROVE  FALSE
            BY DEF Unrivalled
          <6>1. round'[k] = round[k] /\ round[k].epoch \in Int /\ ~Doomed(k)
            BY <1>0, WinDoomed
          <6>2. /\ voter[n].granted # None /\ voter[n].granted.epoch >= round[k].epoch
                /\ voter[n].granted.epoch = round[k].epoch => voter[n].granted.candidate = k
            BY <6>1 DEF CountedHolds
          <6>3. voter[n].granted.epoch \in Int /\ voter[n].granted.epoch <= e
            BY <6>2, Dated DEF WinStep
          <6>4. voter[n].granted.epoch = e /\ voter[n].granted.candidate = k
            BY <6>1, <6>2, <6>3
          <6> QED
            BY <4>2, <6>2, <6>4 DEF WinStep
        <5> QED
          BY <4>2, <5>1 DEF Backs, WinStep
      <4> QED
        BY <4>1, <4>2
    <3>5. \A u \in Q : Backs(u, n, lease[n].epoch, lease[n].from)'
      BY <3>1, <3>4 DEF Backs, Unrivalled
    <3>6. ASSUME NEW p \in led PROVE p[1] <= e
      <4>1. PICK d \in Int : d = p[1]
        BY LedPairs
      <4>2. PICK P \in SUBSET Nodes : AreMajority(P) /\
              \A u \in P : voter[u].granted # None /\ voter[u].granted.epoch >= d
        BY <4>1, LedPairs
      <4>3. PICK u \in Nodes : u \in P /\ u \in Q
        BY <3>1, <4>2, MajoritiesMeet
      <4>4. voter[u].granted # None /\ voter[u].granted.epoch >= d /\ voter[u].granted.epoch \in Int
        BY <4>2, <4>3, Dated
      <4>5. voter[u].granted.epoch <= e
        BY <3>3, <4>3, <4>4 DEF WinStep
      <4> QED
        BY <4>1, <4>4, <4>5
    <3> QED
      BY <2>2, <3>1, <3>5, <3>6
  <2> QED
    BY <2>1, <2>2
<1> QED
  BY <1>1, <1>2, <1>3, <1>4

-----------------------------------------------------------------------------
(* The actions.                                                            *)

\* What a step does to holds, rounds and leases while the policy stays.
HoldStep ==
    /\ policy' = policy /\ now' \in {now, now + 1}
    /\ \A n \in Nodes :
         /\ voter'[n].hold \in {voter[n].hold, policy[n]}
         /\ voter'[n].granted # None =>
              voter'[n].granted = voter[n].granted \/ voter'[n].granted.hold = voter[n].hold
         /\ round'[n] # None =>
              \/ round[n] # None /\ round'[n].opened = round[n].opened /\ round'[n].shortest = FirstPolicy
              \/ round'[n].opened = now /\ round'[n].shortest = policy[n]
         /\ lease'[n] # None =>
              \/ lease'[n] = lease[n]
              \/ round[n] # None /\ lease'[n].from = round[n].opened /\ lease'[n].length = FirstPolicy

LEMMA HoldsKept == ASSUME TypeOK, HoldsAlike, HoldStep PROVE HoldsAlike'
<1> SUFFICES ASSUME NEW n \in Nodes
             PROVE  /\ policy'[n] = FirstPolicy /\ voter'[n].hold = FirstPolicy
                    /\ voter'[n].granted # None => voter'[n].granted.hold = FirstPolicy
                    /\ round'[n] # None => round'[n].shortest = FirstPolicy /\ round'[n].opened <= now'
                    /\ lease'[n] # None => lease'[n].length = FirstPolicy /\ lease'[n].from <= now'
  BY DEF HoldsAlike
<1>1. now \in Int /\ now' \in {now, now + 1}
  BY Dated DEF HoldStep
<1>2. policy'[n] = FirstPolicy /\ voter'[n].hold = FirstPolicy
  BY DEF HoldStep, HoldsAlike
<1>3. voter'[n].granted # None => voter'[n].granted.hold = FirstPolicy
  BY DEF HoldStep, HoldsAlike
<1>4. round'[n] # None => round'[n].shortest = FirstPolicy /\ round'[n].opened <= now'
  BY <1>1, Dated DEF HoldStep, HoldsAlike
<1>5. lease'[n] # None => lease'[n].length = FirstPolicy /\ lease'[n].from <= now'
  BY <1>1, Dated DEF HoldStep, HoldsAlike
<1> QED
  BY <1>2, <1>3, <1>4, <1>5

\* Steps that leave voters, rounds, ballots and leases alone.
LEMMA AsideFenced ==
    ASSUME TypeOK, Fenced, now' \in {now, now + 1},
           UNCHANGED <<policy, voter, stood, round, ballots, lease, led>>
    PROVE  Fenced'
<1>1. QuietStep
  BY DEF QuietStep
<1>2. HoldStep
  BY DEF HoldStep, Fenced, HoldsAlike
<1>3. BallotsBehind'
  BY DEF Fenced, BallotsBehind
<1> QED
  BY <1>1, <1>2, <1>3, QuietFenced, HoldsKept DEF Fenced

LEMMA PassFenced ==
    ASSUME Inv, Fenced, NEW n \in Nodes, Pass(n) PROVE Fenced'
<1>1. UNCHANGED <<now, policy, stood, round, ballots, lease, led>> /\ TypeOK
  BY DEF Pass, clock, cursor, store, Inv
<1>2. \A m \in Nodes : voter'[m].granted = voter[m].granted /\ voter'[m].hold \in {voter[m].hold, policy[m]}
  <2>1. \A m \in Nodes : voter'[m] = IF m = n THEN Held(n) ELSE voter[m]
    BY DEF Pass, Inv, TypeOK
  <2> QED
    BY <1>1, <2>1, HeldKeeps
<1>3. QuietStep
  BY <1>1, <1>2 DEF QuietStep
<1>4. HoldStep
  BY <1>1, <1>2 DEF HoldStep, Fenced, HoldsAlike
<1>5. BallotsBehind'
  BY <1>1 DEF Fenced, BallotsBehind
<1> QED
  BY <1>1, <1>3, <1>4, <1>5, QuietFenced, HoldsKept DEF Fenced

\* A node stands at the epoch it stood at last, or above.
LEMMA StandsOn ==
    ASSUME TypeOK, NEW n \in Nodes PROVE stood[n] <= NextEpoch(n)
<1>1. standing[n].epoch \in Int /\ stood[n] \in Int /\ heard[n] \in Int
  BY EpochsAreInts DEF TypeOK, Leaderships
<1> QED
  BY <1>1 DEF NextEpoch, Larger

LEMMA OpenFenced ==
    ASSUME Inv, Fenced, NEW n \in Nodes, Open(n) PROVE Fenced'
<1>1. UNCHANGED <<now, policy, stood, lease, led>> /\ TypeOK /\ round[n] = None
  BY DEF Open, Idle, clock, cursor, store, Inv
<1>2. \A m \in Nodes : voter'[m].granted = voter[m].granted /\ voter'[m].hold \in {voter[m].hold, policy[m]}
  <2>1. \A m \in Nodes : voter'[m] = IF m = n THEN Held(n) ELSE voter[m]
    BY DEF Open, Inv, TypeOK
  <2> QED
    BY <1>1, <2>1, HeldKeeps
<1>3. PICK r : r = [epoch |-> NextEpoch(n), opened |-> now, shortest |-> policy[n], granted |-> {}, noted |-> 0]
  OBVIOUS
<1>4. r.epoch = NextEpoch(n) /\ r.opened = now /\ r.shortest = policy[n] /\ r.granted = {} /\ r # None
  <2>1. NextEpoch(n) \in Epochs
    BY NextEpochType DEF Open, Inv
  <2>2. now \in Int /\ policy[n] \in Nat /\ 0 \in Epochs
    BY Parameters DEF Inv, TypeOK, Epochs
  <2>3. r \in Rounds
    BY <1>3, <2>1, <2>2 DEF Rounds
  <2> QED
    BY <1>3, <2>3, NoneApart
<1>5. \A m \in Nodes : round'[m] = IF m = n THEN r ELSE round[m]
  BY <1>3 DEF Open, Inv, TypeOK
<1>6. QuietStep
  BY <1>1, <1>2, <1>4, <1>5 DEF QuietStep
<1>7. HoldStep
  BY <1>1, <1>2, <1>4, <1>5 DEF HoldStep, Fenced, HoldsAlike
<1>8. BallotsBehind'
  <2>1. \A b \in ballots' : \/ b.epoch <= stood'[b.from]
                            \/ round'[b.from] # None /\ b.epoch <= round'[b.from].epoch
    <3> SUFFICES ASSUME NEW b \in ballots'
                 PROVE  b.epoch <= stood[b.from] \/ (round'[b.from] # None /\ b.epoch <= round'[b.from].epoch)
      BY <1>1
    <3>1. CASE b \in ballots
      <4>1. b.from \in Nodes
        BY <3>1 DEF Inv, TypeOK, Ballots
      <4>2. b.epoch <= stood[b.from] \/ (round[b.from] # None /\ b.epoch <= round[b.from].epoch)
        BY <3>1 DEF Fenced, BallotsBehind
      <4> QED
        BY <1>1, <1>5, <4>1, <4>2
    <3>2. CASE b \notin ballots
      <4>1. b.from = n /\ b.epoch = NextEpoch(n)
        BY <3>2 DEF Open
      <4>2. NextEpoch(n) \in Int
        BY NextEpochType, EpochsAreInts DEF Open, Inv
      <4> QED
        BY <1>4, <1>5, <4>1, <4>2
    <3> QED
      BY <3>1, <3>2
  <2>2. \A m \in Nodes : round'[m] # None => stood'[m] <= round'[m].epoch
    BY <1>1, <1>4, <1>5, StandsOn DEF Fenced, BallotsBehind
  <2> QED
    BY <2>1, <2>2 DEF BallotsBehind
<1> QED
  BY <1>1, <1>6, <1>7, <1>8, QuietFenced, HoldsKept DEF Fenced

\* A grant at the door gives a vote.
LEMMA GrantedGives ==
    ASSUME Inv, Fenced, LiveIsCurrent, NEW b \in ballots, Answer(b), AnswerGranted(b)
    PROVE  /\ GiveStep(b.to, b.from, b.epoch) /\ HoldStep
           /\ b.from \in Nodes /\ b.to \in Nodes /\ b.epoch \in Int
           /\ \A n \in Nodes : (round'[n] # None <=> round[n] # None)
<1>1. /\ b.from \in Nodes /\ b.to \in Nodes /\ b.from # b.to /\ b.epoch \in Epochs /\ b.epoch \in Int
      /\ b.live => round[b.from] # None /\ round[b.from].epoch = b.epoch
      /\ UNCHANGED <<now, policy, lease, led>> /\ TypeOK /\ HoldsAlike
  BY EpochsAreInts DEF Inv, TypeOK, Ballots, BallotsOut, LiveIsCurrent, Answer, clock, store, Fenced
<1>2. PICK h \in BOOLEAN : Heard(b, h) /\ Counts(b, h, voter[b.to].hold)
  BY DEF AnswerGranted
<1>3. voter[b.to] \in Voters /\ voter[b.to].hold = FirstPolicy /\ FirstPolicy \in Nat
  BY <1>1, Parameters DEF TypeOK, HoldsAlike
<1>4. voter[b.to].granted # None =>
        /\ voter[b.to].granted.epoch <= b.epoch
        /\ voter[b.to].granted.epoch = b.epoch => voter[b.to].granted.candidate = b.from
        /\ voter[b.to].granted.candidate # b.from => MayBeOver(now, voter[b.to].granted.at, FirstPolicy)
  <2> SUFFICES ASSUME voter[b.to].granted # None
               PROVE  /\ voter[b.to].granted.epoch <= b.epoch
                      /\ voter[b.to].granted.epoch = b.epoch => voter[b.to].granted.candidate = b.from
                      /\ voter[b.to].granted.candidate # b.from => MayBeOver(now, voter[b.to].granted.at, FirstPolicy)
    OBVIOUS
  <2>1. ~Decided(voter[b.to], b.epoch, b.from) /\ Free(voter[b.to], b.from, now)
    BY DEF AnswerGranted, MayGrant
  <2>2. voter[b.to].granted.epoch \in Int /\ voter[b.to].granted.hold = FirstPolicy
    BY <1>1, Dated DEF HoldsAlike
  <2> QED
    BY <1>1, <2>1, <2>2 DEF Decided, Free
<1>5. PICK y \in Voters :
        /\ y.hold = FirstPolicy /\ y.granted # None
        /\ y.granted = [epoch |-> b.epoch, candidate |-> b.from, at |-> now, hold |-> FirstPolicy]
        /\ voter' = [voter EXCEPT ![b.to] = y]
  <2> DEFINE z == Grant(voter[b.to], b.epoch, b.from, now)
  <2>1. now \in Int
    BY <1>1, Dated
  <2>2. /\ z \in Voters /\ z.hold = voter[b.to].hold /\ z.granted # None
        /\ z.granted = [epoch |-> b.epoch, candidate |-> b.from, at |-> now, hold |-> voter[b.to].hold]
    BY <1>1, <1>3, <2>1, GrantWrites
  <2>3. voter' = [voter EXCEPT ![b.to] = z]
    BY DEF AnswerGranted
  <2> HIDE DEF z
  <2> QED
    BY <1>3, <2>2, <2>3
<1>6. \A n \in Nodes : voter'[n] = IF n = b.to THEN y ELSE voter[n]
  BY <1>1, <1>5 DEF TypeOK
<1>7. \A n \in Nodes :
        /\ round'[n] # None <=> round[n] # None
        /\ round[n] # None =>
             /\ round'[n].epoch = round[n].epoch /\ round'[n].opened = round[n].opened
             /\ round'[n].shortest = FirstPolicy
             /\ \/ round'[n].granted = round[n].granted
                \/ n = b.from /\ round[n].epoch = b.epoch /\ round'[n].granted = round[n].granted \cup {b.to}
  <2>1. CASE ~h
    BY <1>1, <1>2, <2>1 DEF Counts, HoldsAlike
  <2>2. CASE h
    <3> DEFINE r == round[b.from]
               s == [r EXCEPT !.granted = @ \cup {b.to}, !.shortest = Smaller(@, voter[b.to].hold)]
    <3>1. r # None /\ r.epoch = b.epoch /\ r \in Rounds /\ r.shortest = FirstPolicy
      BY <1>1, <1>2, <2>2 DEF TypeOK, Heard, HoldsAlike
    <3>2. s \in Rounds
      BY <1>1, <1>3, <3>1 DEF Rounds, Smaller
    <3>3. s # None /\ s.epoch = r.epoch /\ s.opened = r.opened /\ s.granted = r.granted \cup {b.to}
      BY <3>1, <3>2, NoneApart DEF Rounds
    <3>4. s.shortest = FirstPolicy
      BY <1>3, <3>1 DEF Rounds, Smaller
    <3>5. round' = [round EXCEPT ![b.from] = s]
      BY <1>2, <2>2 DEF Counts
    <3> HIDE DEF s
    <3>6. \A n \in Nodes : round'[n] = IF n = b.from THEN s ELSE round[n]
      BY <1>1, <3>5 DEF TypeOK
    <3> QED
      BY <1>1, <3>1, <3>3, <3>4, <3>6 DEF HoldsAlike
  <2> QED
    BY <2>1, <2>2
<1>8. round[b.from] # None => b.epoch <= round[b.from].epoch
  <2> SUFFICES ASSUME round[b.from] # None PROVE b.epoch <= round[b.from].epoch
    OBVIOUS
  <2>1. /\ b.epoch <= stood[b.from] \/ b.epoch <= round[b.from].epoch
        /\ stood[b.from] <= round[b.from].epoch
    BY <1>1 DEF Fenced, BallotsBehind
  <2>2. stood[b.from] \in Int /\ round[b.from].epoch \in Int
    BY <1>1, Dated, EpochsAreInts DEF TypeOK
  <2> QED
    BY <1>1, <2>1, <2>2
<1>9. GiveStep(b.to, b.from, b.epoch)
  <2>1. /\ voter'[b.to].granted # None /\ voter'[b.to].granted.epoch = b.epoch
        /\ voter'[b.to].granted.candidate = b.from /\ voter'[b.to].granted.at = now
        /\ \A u \in Nodes \ {b.to} : voter'[u].granted = voter[u].granted
    BY <1>1, <1>5, <1>6
  <2> QED
    BY <1>1, <1>4, <1>7, <1>8, <2>1 DEF GiveStep
<1>10. HoldStep
  <2>1. \A n \in Nodes :
          /\ voter'[n].hold \in {voter[n].hold, policy[n]}
          /\ voter'[n].granted # None =>
               voter'[n].granted = voter[n].granted \/ voter'[n].granted.hold = voter[n].hold
    BY <1>3, <1>5, <1>6
  <2> QED
    BY <1>1, <1>7, <2>1 DEF HoldStep
<1> QED
  BY <1>1, <1>7, <1>9, <1>10

\* Every other answer leaves grants and counted votes alone.
LEMMA RefusedQuiet ==
    ASSUME Inv, Fenced, NEW b \in ballots, Answer(b), ~AnswerGranted(b)
    PROVE  /\ QuietStep /\ HoldStep
           /\ \A n \in Nodes : /\ round'[n] # None <=> round[n] # None
                               /\ round[n] # None => round'[n].epoch = round[n].epoch
<1>1. /\ b.from \in Nodes /\ b.to \in Nodes /\ b.epoch \in Epochs
      /\ UNCHANGED <<now, policy, lease, led>> /\ TypeOK /\ HoldsAlike
  BY DEF Inv, TypeOK, Ballots, Answer, clock, store, Fenced
<1>2. \A v \in Nodes : voter'[v].granted = voter[v].granted /\ voter'[v].hold = voter[v].hold
  <2>1. CASE AnswerStarting(b)
    <3>1. voter' = [voter EXCEPT ![b.to] = Adopt(voter[b.to], b.epoch)]
      BY <2>1 DEF AnswerStarting
    <3>2. Adopt(voter[b.to], b.epoch).granted = voter[b.to].granted
          /\ Adopt(voter[b.to], b.epoch).hold = voter[b.to].hold
      BY <1>1, AdoptKeeps DEF TypeOK
    <3> QED
      BY <1>1, <3>1, <3>2 DEF TypeOK
  <2>2. CASE AnswerDecided(b) \/ AnswerAlive(b) \/ AnswerBehind(b)
    BY <2>2 DEF AnswerDecided, AnswerAlive, AnswerBehind
  <2> QED
    BY <2>1, <2>2 DEF Answer
<1>3. \A n \in Nodes :
        /\ round'[n] # None <=> round[n] # None
        /\ round[n] # None => /\ round'[n].epoch = round[n].epoch /\ round'[n].granted = round[n].granted
                              /\ round'[n].opened = round[n].opened /\ round'[n].shortest = round[n].shortest
  <2>1. CASE AnswerDecided(b)
    <3>1. PICK h \in BOOLEAN : Heard(b, h) /\ Noted(b, h, DecidedAt(voter[b.to], b.epoch))
      BY <2>1 DEF AnswerDecided
    <3>2. CASE ~h
      BY <3>1, <3>2 DEF Noted
    <3>3. CASE h
      <4> DEFINE r == round[b.from]
                 s == [r EXCEPT !.noted = Larger(@, DecidedAt(voter[b.to], b.epoch))]
      <4>1. r \in Rounds
        BY <1>1, <3>1, <3>3 DEF Inv, TypeOK, BallotsOut, Heard
      <4>2. DecidedAt(voter[b.to], b.epoch) \in Epochs
        BY <1>1, <2>1, DecidedType DEF AnswerDecided, TypeOK
      <4>3. s \in Rounds
        BY <4>1, <4>2 DEF Rounds, Larger
      <4>4. s # None /\ r # None /\ s.epoch = r.epoch /\ s.granted = r.granted
            /\ s.opened = r.opened /\ s.shortest = r.shortest
        BY <4>1, <4>3, NoneApart DEF Rounds
      <4>5. round' = [round EXCEPT ![b.from] = s]
        BY <3>1, <3>3 DEF Noted
      <4> HIDE DEF s
      <4>6. \A n \in Nodes : round'[n] = IF n = b.from THEN s ELSE round[n]
        BY <1>1, <4>5 DEF TypeOK
      <4> QED
        BY <4>4, <4>6
    <3> QED
      BY <3>2, <3>3
  <2>2. CASE AnswerAlive(b) \/ AnswerStarting(b) \/ AnswerBehind(b)
    BY <2>2 DEF AnswerAlive, AnswerStarting, AnswerBehind
  <2> QED
    BY <2>1, <2>2 DEF Answer
<1>4. QuietStep
  BY <1>1, <1>2, <1>3 DEF QuietStep
<1>5. HoldStep
  BY <1>1, <1>2, <1>3 DEF HoldStep, HoldsAlike
<1> QED
  BY <1>3, <1>4, <1>5

LEMMA AnswerFenced ==
    ASSUME Inv, Fenced, LiveIsCurrent, NEW b \in ballots, Answer(b) PROVE Fenced'
<1>1. TypeOK /\ ballots' = ballots \ {b} /\ stood' = stood /\ \A d \in ballots : d.from \in Nodes
  BY DEF Inv, TypeOK, Ballots, Answer, cursor
<1>2. CASE AnswerGranted(b)
  <2>1. /\ GiveStep(b.to, b.from, b.epoch) /\ HoldStep
        /\ b.from \in Nodes /\ b.to \in Nodes /\ b.epoch \in Int
        /\ \A n \in Nodes : (round'[n] # None <=> round[n] # None)
    BY <1>2, GrantedGives
  <2>2. CountedHolds' /\ LedStands' /\ RoundsBacked' /\ LeasesBacked'
    BY <1>1, <2>1, GiveFenced DEF Fenced
  <2>3. \A n \in Nodes : round[n] # None => round'[n].epoch = round[n].epoch
    BY <2>1 DEF GiveStep
  <2>4. BallotsBehind'
    BY <1>1, <2>1, <2>3 DEF Fenced, BallotsBehind
  <2> QED
    BY <1>1, <2>1, <2>2, <2>4, HoldsKept DEF Fenced
<1>3. CASE ~AnswerGranted(b)
  <2>1. /\ QuietStep /\ HoldStep
        /\ \A n \in Nodes : /\ round'[n] # None <=> round[n] # None
                            /\ round[n] # None => round'[n].epoch = round[n].epoch
    BY <1>3, RefusedQuiet
  <2>2. BallotsBehind'
    BY <1>1, <2>1 DEF Fenced, BallotsBehind
  <2> QED
    BY <1>1, <2>1, <2>2, QuietFenced, HoldsKept DEF Fenced
<1> QED
  BY <1>2, <1>3

\* A ballot left behind is one that was on its way.
LEMMA UnheardFrom ==
    ASSUME TypeOK, NEW n \in Nodes, NEW B \in Unheard(n), NEW b \in B
    PROVE  \E a \in ballots : b.from = a.from /\ b.epoch = a.epoch
<1> DEFINE others == {a \in ballots : a.from # n}
           late == {[a EXCEPT !.live = FALSE] : a \in ballots \ others}
<1>1. b \in others \cup late
  BY DEF Unheard
<1>2. CASE b \in others
  BY <1>2
<1>3. CASE b \in late
  <2>1. PICK a \in ballots : b = [a EXCEPT !.live = FALSE]
    BY <1>3
  <2>2. a \in Ballots
    BY DEF TypeOK
  <2>3. b.from = a.from /\ b.epoch = a.epoch
    BY <2>1, <2>2 DEF Ballots
  <2> QED
    BY <2>3
<1> QED
  BY <1>1, <1>2, <1>3

\* What a round that is carried does.
LEMMA WonWins ==
    ASSUME Inv, Fenced, NEW n \in Nodes, NEW own \in OwnVotes, round[n] \in Rounds,
           OwnVote(n, own), Won(n, own), round' = [round EXCEPT ![n] = None], UNCHANGED <<now, policy>>
    PROVE  HoldStep /\ \E e \in Epochs, t \in Int, Q \in SUBSET Nodes : WinStep(n, e, t, Q)
<1>1. PICK e \in Epochs, t \in Int : e = round[n].epoch /\ t = round[n].opened
  BY DEF Rounds
<1>2. /\ round[n] # None /\ round[n].granted \subseteq Nodes /\ n \notin round[n].granted
      /\ TypeOK /\ HoldsAlike /\ e \in Int /\ FirstPolicy \in Nat
  BY NoneApart, EpochsAreInts, Parameters DEF Inv, Rounds, RoundBounded, Fenced
<1>3. PICK Q \in SUBSET Nodes : Q = Votes(n, own)
  BY <1>2 DEF Votes
<1>4. AreMajority(Q) /\ Q \subseteq round[n].granted \cup {n} /\ (n \in Q <=> own = "granted")
  BY <1>2, <1>3 DEF Won, Votes, AreMajority
<1>5. voter[n] \in Voters /\ voter[n].hold = FirstPolicy /\ round[n].shortest = FirstPolicy
  BY <1>2 DEF TypeOK, HoldsAlike
<1>6. PICK x \in Voters :
        /\ x = Voted(n, own) /\ x.hold = FirstPolicy
        /\ own # "granted" => x.granted = voter[n].granted
  BY <1>2, <1>5, VotedKeeps
<1>7. PICK y \in Voters :
        /\ y.hold = FirstPolicy /\ y.granted # None
        /\ y.granted = [epoch |-> e, candidate |-> n, at |-> t, hold |-> FirstPolicy]
        /\ voter' = [voter EXCEPT ![n] = y]
  <2> DEFINE z == Grant(x, e, n, t)
  <2>1. /\ z \in Voters /\ z.hold = x.hold /\ z.granted # None
        /\ z.granted = [epoch |-> e, candidate |-> n, at |-> t, hold |-> x.hold]
    BY GrantWrites
  <2>2. voter' = [voter EXCEPT ![n] = z]
    BY <1>1, <1>6 DEF Won, Carried
  <2> HIDE DEF z
  <2> QED
    BY <1>6, <2>1, <2>2
<1>8. \A m \in Nodes : voter'[m] = IF m = n THEN y ELSE voter[m]
  BY <1>2, <1>7 DEF TypeOK
<1>9. PICK won \in Leaderships :
        /\ won.epoch = e /\ won.from = t /\ won.length = FirstPolicy /\ won # None
        /\ lease' = [lease EXCEPT ![n] = won]
  <2> DEFINE w == [epoch |-> e, from |-> t, length |-> Length(n, own)]
  <2>1. Length(n, own) = FirstPolicy
    BY <1>2, <1>5 DEF Length, Smaller
  <2>2. w \in Leaderships /\ w.epoch = e /\ w.from = t /\ w.length = FirstPolicy
    BY <1>2, <2>1 DEF Leaderships
  <2>3. lease' = [lease EXCEPT ![n] = w]
    BY <1>1 DEF Won
  <2> HIDE DEF w
  <2> QED
    BY <2>2, <2>3, NoneApart
<1>10. \A m \in Nodes : /\ lease'[m] = IF m = n THEN won ELSE lease[m]
                        /\ round'[m] = IF m = n THEN None ELSE round[m]
  BY <1>2, <1>9 DEF TypeOK
<1>11. led' = led \cup {<<e, n>>}
  BY <1>1 DEF Won
<1>12. voter[n].granted # None =>
         /\ voter[n].granted.epoch <= e
         /\ n \in Q /\ voter[n].granted.candidate # n =>
              voter[n].granted.epoch # e /\ MayBeOver(t, voter[n].granted.at, FirstPolicy)
  <2> SUFFICES ASSUME voter[n].granted # None
               PROVE  /\ voter[n].granted.epoch <= e
                      /\ n \in Q /\ voter[n].granted.candidate # n =>
                           voter[n].granted.epoch # e /\ MayBeOver(t, voter[n].granted.at, FirstPolicy)
    OBVIOUS
  <2>1. voter[n].granted.epoch \in Int /\ voter[n].granted.hold = FirstPolicy
    BY <1>2, Dated DEF HoldsAlike
  <2>2. CASE own = "granted"
    <3>1. ~Decided(voter[n], e, n) /\ Free(voter[n], n, t)
      BY <1>1, <2>2 DEF OwnVote, MayGrant
    <3> QED
      BY <1>2, <2>1, <3>1 DEF Decided, Free
  <2>3. CASE own # "granted"
    <3>1. ~Promised(x, e) /\ x.granted = voter[n].granted
      BY <1>1, <1>6, <2>3 DEF Won
    <3>2. ~(voter[n].granted.epoch > e)
      BY <3>1 DEF Promised
    <3> QED
      BY <1>2, <1>4, <2>1, <2>3, <3>2
  <2> QED
    BY <2>2, <2>3
<1>13. WinStep(n, e, t, Q)
  <2>1. /\ voter'[n].granted # None /\ voter'[n].granted.epoch = e
        /\ voter'[n].granted.candidate = n /\ voter'[n].granted.at = t
    BY <1>7, <1>8
  <2>2. lease'[n] # None /\ lease'[n].epoch = e /\ lease'[n].from = t /\ round'[n] = None
    BY <1>9, <1>10
  <2>3. \A m \in Nodes \ {n} : /\ voter'[m].granted = voter[m].granted
                               /\ round'[m] = round[m] /\ lease'[m] = lease[m]
    BY <1>8, <1>10
  <2> QED
    BY <1>1, <1>2, <1>4, <1>11, <1>12, <2>1, <2>2, <2>3 DEF WinStep
<1>14. HoldStep
  <2>1. \A m \in Nodes :
          /\ voter'[m].hold \in {voter[m].hold, policy[m]}
          /\ voter'[m].granted # None =>
               voter'[m].granted = voter[m].granted \/ voter'[m].granted.hold = voter[m].hold
    BY <1>5, <1>7, <1>8
  <2>2. \A m \in Nodes : round'[m] # None =>
          round[m] # None /\ round'[m].opened = round[m].opened /\ round'[m].shortest = FirstPolicy
    BY <1>2, <1>10 DEF HoldsAlike
  <2>3. \A m \in Nodes : lease'[m] # None =>
          \/ lease'[m] = lease[m]
          \/ round[m] # None /\ lease'[m].from = round[m].opened /\ lease'[m].length = FirstPolicy
    BY <1>1, <1>2, <1>9, <1>10
  <2> QED
    BY <2>1, <2>2, <2>3 DEF HoldStep
<1> QED
  BY <1>13, <1>14

LEMMA CloseFenced ==
    ASSUME Inv, Fenced, Apart, NEW n \in Nodes, Close(n) PROVE Fenced'
<1>1. /\ round[n] \in Rounds /\ round[n] # None /\ round' = [round EXCEPT ![n] = None] /\ ballots' \in Unheard(n)
      /\ UNCHANGED <<now, policy>> /\ TypeOK
  BY DEF Close, Inv, TypeOK, clock
<1>2. PICK own \in OwnVotes : OwnVote(n, own) /\ (Won(n, own) \/ Lost(n, own))
  BY DEF Close
<1>3. \A m \in Nodes : round'[m] = IF m = n THEN None ELSE round[m]
  BY <1>1 DEF TypeOK
<1>4. BallotsBehind'
  <2>1. \A m \in Nodes : stood'[m] = IF m = n THEN round[n].epoch ELSE stood[m]
    BY <1>1, <1>2 DEF Won, Lost, TypeOK
  <2>2. ASSUME NEW b \in ballots'
        PROVE  b.epoch <= stood'[b.from] \/ (round'[b.from] # None /\ b.epoch <= round'[b.from].epoch)
    <3>1. PICK a \in ballots : b.from = a.from /\ b.epoch = a.epoch
      BY <1>1, UnheardFrom
    <3>2. a.from \in Nodes /\ a.epoch \in Int
      BY <1>1, EpochsAreInts DEF TypeOK, Ballots
    <3>3. /\ a.epoch <= stood[a.from] \/ (round[a.from] # None /\ a.epoch <= round[a.from].epoch)
          /\ stood[n] <= round[n].epoch
      BY <1>1 DEF Fenced, BallotsBehind
    <3>4. stood[n] \in Int /\ round[n].epoch \in Int
      BY <1>1, Dated, EpochsAreInts DEF TypeOK
    <3>5. CASE a.from = n
      BY <2>1, <3>1, <3>2, <3>3, <3>4, <3>5
    <3>6. CASE a.from # n
      BY <1>3, <2>1, <3>1, <3>2, <3>3, <3>6
    <3> QED
      BY <3>5, <3>6
  <2>3. \A m \in Nodes : round'[m] # None => stood'[m] <= round'[m].epoch
    BY <1>3, <2>1 DEF Fenced, BallotsBehind
  <2> QED
    BY <2>2, <2>3 DEF BallotsBehind
<1>5. CASE Won(n, own)
  <2>1. HoldStep /\ \E e \in Epochs, t \in Int, Q \in SUBSET Nodes : WinStep(n, e, t, Q)
    BY <1>1, <1>2, <1>5, WonWins
  <2>2. PICK e \in Epochs, t \in Int, Q \in SUBSET Nodes : WinStep(n, e, t, Q)
    BY <2>1
  <2>3. e \in Int
    BY EpochsAreInts
  <2>4. CountedHolds' /\ LedStands' /\ RoundsBacked' /\ LeasesBacked'
    BY <1>1, <2>2, <2>3, WinFenced DEF Fenced
  <2> QED
    BY <1>1, <1>4, <2>1, <2>4, HoldsKept DEF Fenced
<1>6. CASE Lost(n, own)
  <2>1. own # "granted"
    BY <1>1, <1>2, <1>6, LostGivesNothing
  <2>2. Voted(n, own).granted = voter[n].granted /\ Voted(n, own).hold = voter[n].hold
    BY <1>1, <2>1, VotedKeeps
  <2>3. voter' = [voter EXCEPT ![n] = Voted(n, own)] /\ led' = led /\ lease' = lease
    BY <1>6 DEF Lost
  <2>4. \A v \in Nodes : voter'[v].granted = voter[v].granted /\ voter'[v].hold = voter[v].hold
    BY <1>1, <2>2, <2>3 DEF TypeOK
  <2>5. QuietStep
    BY <1>1, <1>3, <2>3, <2>4 DEF QuietStep
  <2>6. HoldStep
    BY <1>1, <1>3, <2>3, <2>4 DEF HoldStep, Fenced, HoldsAlike
  <2> QED
    BY <1>1, <1>4, <2>5, <2>6, QuietFenced, HoldsKept DEF Fenced
<1> QED
  BY <1>2, <1>5, <1>6

-----------------------------------------------------------------------------
\* No voter starts again and no policy is installed.
Steady == Restarting = {} /\ Policies = {}

LEMMA InitFenced == Init => Fenced
<1> SUFFICES ASSUME Init PROVE Fenced
  OBVIOUS
<1>1. \A n \in Nodes : /\ voter[n].granted = None /\ voter[n].hold = FirstPolicy /\ policy[n] = FirstPolicy
                       /\ round[n] = None /\ lease[n] = None
  BY DEF Init, Started
<1>2. ballots = {} /\ led = {}
  BY DEF Init
<1>3. HoldsAlike /\ BallotsBehind /\ CountedHolds
  BY <1>1, <1>2 DEF HoldsAlike, BallotsBehind, CountedHolds
<1>4. LedStands /\ RoundsBacked /\ LeasesBacked
  BY <1>1, <1>2 DEF LedStands, RoundsBacked, LeasesBacked
<1> QED
  BY <1>3, <1>4 DEF Fenced

LEMMA NextFenced ==
    ASSUME Inv, Votable, Fenced, Steady, [Next]_vars
    PROVE  Fenced'
<1>0. TypeOK /\ Apart /\ LiveIsCurrent
  BY VotableApart DEF Inv, Votable
<1>1. CASE Tick
  BY <1>0, <1>1, AsideFenced DEF Tick, cursor, store
<1>2. CASE \E b \in ballots : Answer(b)
  BY <1>0, <1>2, AnswerFenced
<1>3. ASSUME NEW n \in Nodes, Pass(n) \/ Open(n) \/ Close(n) PROVE Fenced'
  BY <1>0, <1>3, PassFenced, OpenFenced, CloseFenced
<1>4. ASSUME NEW n \in Nodes, Name(n) \/ Admit(n) \/ Land(n) \/ RefuseFenced(n) PROVE Fenced'
  BY <1>0, <1>4, AsideFenced DEF Name, Admit, Land, RefuseFenced, clock, cursor
<1>5. ASSUME NEW n \in Nodes, NEW m \in Nodes, Collect(n, m) PROVE Fenced'
  BY <1>0, <1>5, AsideFenced DEF Collect, clock, cursor
<1>6. ASSUME NEW n \in Nodes, Restart(n) \/ \E d \in Policies : Install(n, d) PROVE Fenced'
  BY <1>6 DEF Restart, Steady
<1>7. CASE UNCHANGED vars
  BY <1>0, <1>7, AsideFenced DEF vars
<1> QED
  BY <1>1, <1>2, <1>3, <1>4, <1>5, <1>6, <1>7 DEF Next

\* A node inside its fence holds a lease that runs on every clock.
LEMMA WritersRun ==
    ASSUME TypeOK, Fenced, NEW n \in Nodes, MayWrite(n)
    PROVE  lease[n] # None /\ Running(lease[n].from)
<1>1. lease[n] # None
  BY DEF MayWrite
<1>2. now < lease[n].from + lease[n].length - Drift /\ lease[n].length = FirstPolicy
  BY <1>1, InsideTheLease DEF Fenced, HoldsAlike
<1>3. now \in Int /\ FirstPolicy \in Int /\ Drift \in Int /\ lease[n].from \in Int
  BY <1>1, Dated
<1> QED
  BY <1>1, <1>2, <1>3 DEF Running, MayBeOver

LEMMA FencedIsSafe == ASSUME TypeOK, Fenced PROVE OneWriter /\ WriterIsNewest
<1>1. ASSUME NEW m \in Nodes, NEW n \in Nodes, MayWrite(m), MayWrite(n) PROVE m = n
  <2>1. PICK P \in SUBSET Nodes : AreMajority(P) /\ \A v \in P : Backs(v, m, lease[m].epoch, lease[m].from)
    BY <1>1, WritersRun DEF Fenced, LeasesBacked
  <2>2. PICK Q \in SUBSET Nodes : AreMajority(Q) /\ \A v \in Q : Backs(v, n, lease[n].epoch, lease[n].from)
    BY <1>1, WritersRun DEF Fenced, LeasesBacked
  <2>3. PICK u \in Nodes : u \in P /\ u \in Q
    BY <2>1, <2>2, MajoritiesMeet
  <2> QED
    BY <2>1, <2>2, <2>3 DEF Backs
<1>2. ASSUME NEW n \in Nodes, MayWrite(n), NEW p \in led PROVE p[1] <= lease[n].epoch
  BY <1>2, WritersRun DEF Fenced, LeasesBacked
<1> QED
  BY <1>1, <1>2 DEF OneWriter, WriterIsNewest

\* As long as no voter starts again and the policy stays, two nodes are never both
\* inside their fences, whatever ballots and answers are lost or late, however long a
\* canvass takes and however clocks drift within the guard (lease.rs, Voter::asked).
THEOREM OneNodeWrites == Spec => [](Steady => OneWriter)
<1> DEFINE I == Inv /\ (Steady => Votable /\ Fenced)
<1>1. Init => I
  BY InitInv, InitVotable, InitFenced
<1>2. I /\ [Next]_vars => I'
  BY NextInv, NextVotable, NextFenced DEF Steady
<1>3. I => (Steady => OneWriter)
  BY FencedIsSafe DEF Inv
<1> QED
  BY <1>1, <1>2, <1>3, PTL DEF Spec

\* Under the same conditions whoever is inside its fence holds the newest leadership
\* anybody has won: no later round is carried around a lease that runs.
THEOREM NewestWrites == Spec => [](Steady => WriterIsNewest)
<1> DEFINE I == Inv /\ (Steady => Votable /\ Fenced)
<1>1. Init => I
  BY InitInv, InitVotable, InitFenced
<1>2. I /\ [Next]_vars => I'
  BY NextInv, NextVotable, NextFenced DEF Steady
<1>3. I => (Steady => WriterIsNewest)
  BY FencedIsSafe DEF Inv
<1> QED
  BY <1>1, <1>2, <1>3, PTL DEF Spec

=============================================================================
