-------------------------- MODULE LeadershipProofs --------------------------
(***************************************************************************)
(* What holds of Leadership for every cluster, lease, guard and drift.     *)
(*                                                                         *)
(* OwnVoterHolds is not inductive: it rests on the lease being the one the *)
(* node's own voter was told of and no longer than that voter's hold,      *)
(* which rests in turn on a round never promising more than the candidate  *)
(* itself would hold, and on no candidate counting its own vote twice.     *)
(***************************************************************************)
EXTENDS Leadership, TLAPS, FiniteSetTheorems

\* A ballot is put to somebody else, and one still awaited has its round open.
BallotsOut == \A b \in ballots : b.from # b.to /\ (b.live => round[b.from] # None)

\* A round promises no more than its candidate's own hold, and the candidate's
\* own vote is not among the ones counted.
RoundBounded ==
    \A n \in Nodes : round[n] # None =>
        round[n].shortest <= voter[n].hold /\ n \notin round[n].granted

\* The grant behind a lease: this node's own, of the lease's epoch, no shorter
\* and no older than the lease.
Backed(n) ==
    LET g == voter[n].granted IN
    /\ g # None /\ g.candidate = n /\ g.epoch = lease[n].epoch
    /\ g.at >= lease[n].from /\ g.hold >= lease[n].length

LeaseBacked ==
    \A n \in Nodes : lease[n] # None => lease[n] = standing[n] /\ (MayWrite(n) => Backed(n))

Inv == TypeOK /\ BallotsOut /\ RoundBounded /\ LeaseBacked

-----------------------------------------------------------------------------
(* The operators the steps are built from.                                 *)

LEMMA Parameters ==
    /\ IsFiniteSet(Nodes) /\ Nodes # {}
    /\ TTL \in Nat /\ Guard \in Nat /\ RoundTime \in Nat /\ Drift \in Nat /\ FirstPolicy \in Nat
    /\ MaxTime \in Nat /\ MaxEpoch \in Nat /\ MaxLog \in Nat /\ MaxRestarts \in Nat
    /\ Policies \subseteq Nat /\ 2 * Drift <= Guard
    /\ Reaches \in [Nodes -> SUBSET Nodes]
BY LeaseAssumption

\* A voter that adopts an epoch keeps its grant and its hold.
LEMMA AdoptKeeps ==
    ASSUME NEW x \in Voters, NEW e \in Epochs
    PROVE  /\ Adopt(x, e) \in Voters
           /\ Adopt(x, e).hold = x.hold /\ Adopt(x, e).granted = x.granted
BY Parameters DEF Adopt, Voters, Larger, Epochs

\* What Voter::asked writes when it grants.
LEMMA GrantWrites ==
    ASSUME NEW x \in Voters, NEW e \in Epochs, NEW c \in Nodes, NEW t \in Int
    PROVE  /\ Grant(x, e, c, t) \in Voters
           /\ Grant(x, e, c, t).hold = x.hold
           /\ Grant(x, e, c, t).granted =
                [epoch |-> e, candidate |-> c, at |-> t, hold |-> x.hold]
           /\ Grant(x, e, c, t).granted # None
<1>1. Adopt(x, e) \in Voters
  BY AdoptKeeps
<1>2. [epoch |-> e, candidate |-> c, at |-> t, hold |-> x.hold] \in Grants
  BY DEF Grants, Voters
<1>3. Adopt(x, e).hold = x.hold
  BY AdoptKeeps
<1> QED
  BY <1>1, <1>2, <1>3, NoneApart DEF Grant, Voters

\* The epoch a refusal names is one this voter has seen or granted.
LEMMA DecidedType ==
    ASSUME NEW x \in Voters, NEW e \in Epochs, NEW c, Decided(x, e, c)
    PROVE  DecidedAt(x, e) \in Epochs
BY DEF Decided, DecidedAt, Voters, Grants, Epochs

LEMMA TailType ==
    ASSUME log \in [Nodes -> Seq(Records)], NEW n \in Nodes, MaxEpoch \in Nat
    PROVE  TailLeadership(n) \in Epochs /\ Len(log[n]) \in Nat
<1>1. log[n] \in Seq(Records)
  OBVIOUS
<1>2. CASE log[n] = <<>>
  BY <1>1, <1>2 DEF TailLeadership, Epochs
<1>3. CASE log[n] # <<>>
  <2>1. Len(log[n]) \in 1..Len(log[n])
    BY <1>1, <1>3
  <2>2. log[n][Len(log[n])] \in Records
    BY <1>1, <2>1
  <2> QED
    BY <1>1, <1>3, <2>2 DEF TailLeadership, Records
<1> QED
  BY <1>2, <1>3

LEMMA NextEpochType ==
    ASSUME TypeOK, NEW n \in Nodes, NextEpoch(n) <= MaxEpoch
    PROVE  NextEpoch(n) \in Epochs
<1>1. standing[n].epoch \in Epochs /\ stood[n] \in Epochs /\ heard[n] \in Epochs
  BY DEF TypeOK, Leaderships
<1> QED
  BY <1>1, Parameters DEF NextEpoch, Larger, Epochs

\* A candidate whose own vote is granted has carried its round: the vote is cast
\* only when one more decides it.
LEMMA OwnVoteCarries ==
    ASSUME NEW n \in Nodes, round[n] \in Rounds, n \notin round[n].granted,
           OwnVote(n, "granted")
    PROVE  Cardinality(Votes(n, "granted")) >= Majority
<1>1. round[n].granted \subseteq Nodes
  BY DEF Rounds
<1>2. IsFiniteSet(round[n].granted)
  BY <1>1, Parameters, FS_Subset
<1>3. Cardinality(Votes(n, "granted")) = Cardinality(round[n].granted) + 1
  BY <1>2, FS_AddElement DEF Votes
<1>4. Cardinality(round[n].granted) \in Nat /\ Cardinality(Nodes) \in Nat
  BY <1>2, FS_CardinalityType, Parameters
<1>5. Majority - Cardinality(round[n].granted) <= 1
  BY DEF OwnVote
<1>6. Majority \in Int
  BY <1>4 DEF Majority
<1> QED
  BY <1>3, <1>4, <1>5, <1>6

-----------------------------------------------------------------------------

\* A node that has just started holds no grant.
LEMMA StartedType ==
    ASSUME NEW t \in Int, NEW h \in Nat
    PROVE  /\ [Started(t) EXCEPT !.hold = h] \in Voters
           /\ [Started(t) EXCEPT !.hold = h].granted = None
BY Parameters DEF Started, Voters, Epochs

LEMMA SpentType ==
    ASSUME NEW t \in Int
    PROVE  Spent(t) \in Leaderships
BY Parameters DEF Spent, Leaderships, Epochs

LEMMA InitInv == Init => Inv
<1> SUFFICES ASSUME Init PROVE Inv
  OBVIOUS
<1> USE Parameters
<1>1. 0 \in Epochs /\ <<>> \in Seq(Records)
  BY DEF Epochs
<1>2. voter \in [Nodes -> Voters]
  <2> DEFINE t == 0 - Larger(FirstPolicy, TTL) - Drift
  <2>1. t \in Int
    BY DEF Larger
  <2>2. [Started(t) EXCEPT !.hold = FirstPolicy] \in Voters
    BY <2>1, StartedType
  <2> QED
    BY <2>2 DEF Init
<1>3. standing \in [Nodes -> Leaderships]
  BY SpentType DEF Init
<1>4. TypeOK
  <2>1. now \in 0..MaxTime /\ restarts \in 0..MaxRestarts /\ policy \in [Nodes -> Nat]
    BY DEF Init
  <2>2. stood \in [Nodes -> Epochs] /\ heard \in [Nodes -> Epochs] /\ leading \in [Nodes -> Epochs]
    BY <1>1 DEF Init
  <2>3. round \in [Nodes -> Rounds \cup {None}] /\ lease \in [Nodes -> Leaderships \cup {None}]
        /\ commit \in [Nodes -> Epochs \cup {None}]
    BY DEF Init
  <2>4. log \in [Nodes -> Seq(Records)] /\ ballots \subseteq Ballots /\ led \subseteq Epochs \X Nodes
    BY <1>1 DEF Init
  <2> QED
    BY <1>2, <1>3, <2>1, <2>2, <2>3, <2>4 DEF TypeOK
<1>5. BallotsOut /\ RoundBounded /\ LeaseBacked
  BY DEF Init, BallotsOut, RoundBounded, LeaseBacked
<1> QED
  BY <1>4, <1>5 DEF Inv

-----------------------------------------------------------------------------
(* Time.                                                                   *)

\* A node found inside its fence by a drifting clock is inside the lease by more
\* than the drift another clock can add: this is what Guard is for.
LEMMA InsideTheLease ==
    ASSUME TypeOK, NEW n \in Nodes, MayWrite(n)
    PROVE  now < lease[n].from + lease[n].length - Drift
<1>1. lease[n] \in Leaderships /\ lease[n] # None
  BY DEF TypeOK, MayWrite
<1>2. lease[n].from \in Int /\ lease[n].length \in Nat /\ now \in Nat
  BY <1>1, Parameters DEF TypeOK, Leaderships
<1>3. 0 < Window(lease[n]) /\ now - lease[n].from - Drift < Window(lease[n])
  BY DEF MayWrite, MayBeRunning
<1> QED
  BY <1>2, <1>3, Parameters DEF Window, Fence, Larger

\* What a voter that granted itself a lease finds alive, it grants to nobody else.
LEMMA BackedRefuses ==
    ASSUME TypeOK, NEW n \in Nodes, MayWrite(n), Backed(n), NEW c, c # n
    PROVE  ~Free(voter[n], c, now)
<1> DEFINE g == voter[n].granted
<1>1. g \in Grants /\ lease[n] \in Leaderships
  BY DEF TypeOK, Voters, Backed, MayWrite
<1>2. g.at \in Int /\ g.hold \in Nat
  BY <1>1 DEF Grants
<1>2a. lease[n].from \in Int /\ lease[n].length \in Nat /\ now \in Nat
  BY <1>1, Parameters DEF TypeOK, Leaderships
<1>3. now < lease[n].from + lease[n].length - Drift
  BY InsideTheLease
<1>4. g.at >= lease[n].from /\ g.hold >= lease[n].length /\ g # None /\ g.candidate # c
  BY DEF Backed
<1>5. ~MayBeOver(now, g.at, g.hold)
  BY <1>2, <1>2a, <1>3, <1>4, Parameters DEF MayBeOver
<1> QED
  BY <1>4, <1>5 DEF Free

-----------------------------------------------------------------------------
(* Steps that leave voters, rounds, ballots, leases and time alone.        *)

LEMMA SameBacking ==
    ASSUME Inv, UNCHANGED <<now, voter, standing, lease, round, ballots>>
    PROVE  BallotsOut' /\ RoundBounded' /\ LeaseBacked'
BY DEF Inv, BallotsOut, RoundBounded, LeaseBacked, Backed, MayWrite, MayBeRunning, Window, Fence, Larger

LEMMA NameInv ==
    ASSUME Inv, NEW n \in Nodes, Name(n)
    PROVE  Inv'
<1>1. TypeOK'
  BY DEF Inv, TypeOK, Name, clock, cursor, Leaderships
<1> QED
  BY <1>1, SameBacking DEF Inv, Name, clock, cursor

LEMMA AdmitInv ==
    ASSUME Inv, NEW n \in Nodes, Admit(n)
    PROVE  Inv'
<1>1. TypeOK'
  BY DEF Inv, TypeOK, Admit, clock, cursor
<1> QED
  BY <1>1, SameBacking DEF Inv, Admit, clock, cursor

LEMMA LandInv ==
    ASSUME Inv, NEW n \in Nodes, Land(n)
    PROVE  Inv'
<1>1. [epoch |-> commit[n], by |-> n] \in Records
  BY DEF Inv, TypeOK, Land, Records
<1>2. log' \in [Nodes -> Seq(Records)]
  BY <1>1 DEF Inv, TypeOK, Land
<1>3. TypeOK'
  BY <1>2 DEF Inv, TypeOK, Land, clock, cursor
<1> QED
  BY <1>3, SameBacking DEF Inv, Land, clock, cursor

LEMMA RefuseFencedInv ==
    ASSUME Inv, NEW n \in Nodes, RefuseFenced(n)
    PROVE  Inv'
<1>1. TypeOK'
  BY DEF Inv, TypeOK, RefuseFenced, clock, cursor
<1> QED
  BY <1>1, SameBacking DEF Inv, RefuseFenced, clock, cursor

LEMMA CollectInv ==
    ASSUME Inv, NEW n \in Nodes, NEW m \in Nodes, Collect(n, m)
    PROVE  Inv'
<1>1. log[n] \in Seq(Records) /\ log[m] \in Seq(Records) /\ Len(log[n]) < Len(log[m])
  BY DEF Inv, TypeOK, Collect
<1>2. Len(log[n]) + 1 \in 1..Len(log[m])
  BY <1>1
<1>3. log[m][Len(log[n]) + 1] \in Records
  BY <1>1, <1>2
<1>4. log' \in [Nodes -> Seq(Records)]
  BY <1>1, <1>3 DEF Inv, TypeOK, Collect
<1>5. TypeOK'
  BY <1>4 DEF Inv, TypeOK, Collect, clock, cursor
<1> QED
  BY <1>5, SameBacking DEF Inv, Collect, clock, cursor

LEMMA InstallInv ==
    ASSUME Inv, NEW n \in Nodes, NEW d \in Policies, Install(n, d)
    PROVE  Inv'
<1>1. TypeOK'
  BY Parameters DEF Inv, TypeOK, Install, clock, cursor, store
<1> QED
  BY <1>1, SameBacking DEF Inv, Install, clock, cursor, store

LEMMA TickInv ==
    ASSUME Inv, Tick
    PROVE  Inv'
<1>1. TypeOK'
  BY Parameters DEF Inv, TypeOK, Tick, cursor, store
<1>2. BallotsOut' /\ RoundBounded'
  BY DEF Inv, Tick, cursor, store, BallotsOut, RoundBounded
<1>3. \A n \in Nodes : MayWrite(n)' => MayWrite(n)
  <2> SUFFICES ASSUME NEW n \in Nodes, MayWrite(n)' PROVE MayWrite(n)
    OBVIOUS
  <2>1. lease' = lease /\ now' = now + 1 /\ now \in Nat
    BY Parameters DEF Inv, TypeOK, Tick, store
  <2>2. lease[n] \in Leaderships
    BY <2>1 DEF Inv, TypeOK, MayWrite
  <2> QED
    BY <2>1, <2>2, Parameters DEF MayWrite, MayBeRunning, Window, Fence, Larger, Leaderships
<1>4. LeaseBacked'
  BY <1>3 DEF Inv, Tick, cursor, store, LeaseBacked, Backed
<1> QED
  BY <1>1, <1>2, <1>4 DEF Inv

-----------------------------------------------------------------------------
(* The door.                                                               *)

\* No round is opened or closed, none promises more than it did, and none comes
\* to count its own candidate.
RoundsKept ==
    /\ round' \in [Nodes -> Rounds \cup {None}]
    /\ \A n \in Nodes : round'[n] = None <=> round[n] = None
    /\ \A n \in Nodes : round[n] # None =>
         /\ round'[n].shortest <= round[n].shortest
         /\ n \notin round[n].granted => n \notin round'[n].granted

\* A vote counted adds a voter that is not the candidate and lengthens nothing.
LEMMA CountsRound ==
    ASSUME TypeOK, BallotsOut, NEW b \in ballots, NEW h \in BOOLEAN, NEW hold \in Nat,
           Heard(b, h), Counts(b, h, hold)
    PROVE  RoundsKept
<1>1. b \in Ballots /\ b.from \in Nodes /\ b.to \in Nodes /\ b.from # b.to
  BY DEF TypeOK, Ballots, BallotsOut
<1>2. CASE ~h
  <2>1. round' = round
    BY <1>2 DEF Counts
  <2>2. \A n \in Nodes : round[n] # None => round[n].shortest \in Nat
    BY DEF TypeOK, Rounds
  <2> QED
    BY <2>1, <2>2 DEF TypeOK, RoundsKept
<1>3. CASE h
  <2> DEFINE r == round[b.from]
             s == [r EXCEPT !.granted = @ \cup {b.to}, !.shortest = Smaller(@, hold)]
  <2>1. r \in Rounds
    BY <1>1, <1>3 DEF TypeOK, BallotsOut, Heard
  <2>2. s \in Rounds
    BY <1>1, <2>1 DEF Rounds, Smaller
  <2>3. s.shortest <= r.shortest /\ s.granted = r.granted \cup {b.to}
    BY <2>1 DEF Rounds, Smaller
  <2>4. round' = [round EXCEPT ![b.from] = s]
    BY <1>3 DEF Counts
  <2> HIDE DEF s
  <2>5. \A n \in Nodes : round[n] # None => round[n].shortest \in Nat
    BY DEF TypeOK, Rounds
  <2>6. s # None /\ r # None
    BY <2>1, <2>2, NoneApart
  <2>7. \A n \in Nodes : round'[n] = IF n = b.from THEN s ELSE round[n]
    BY <2>4, <1>1 DEF TypeOK
  <2>8. round' \in [Nodes -> Rounds \cup {None}]
    BY <2>2, <2>4, <1>1 DEF TypeOK
  <2> QED
    BY <1>1, <2>3, <2>5, <2>6, <2>7, <2>8 DEF RoundsKept
<1> QED
  BY <1>2, <1>3

LEMMA NotedRound ==
    ASSUME TypeOK, BallotsOut, NEW b \in ballots, NEW h \in BOOLEAN, NEW e \in Epochs,
           Heard(b, h), Noted(b, h, e)
    PROVE  RoundsKept
<1>1. b \in Ballots /\ b.from \in Nodes
  BY DEF TypeOK, Ballots
<1>2. \A n \in Nodes : round[n] # None => round[n].shortest \in Nat
  BY DEF TypeOK, Rounds
<1>3. CASE ~h
  BY <1>2, <1>3 DEF Noted, TypeOK, RoundsKept
<1>4. CASE h
  <2> DEFINE r == round[b.from]
             s == [r EXCEPT !.noted = Larger(@, e)]
  <2>1. r \in Rounds
    BY <1>1, <1>4 DEF TypeOK, BallotsOut, Heard
  <2>2. s \in Rounds
    BY <2>1 DEF Rounds, Larger, Epochs
  <2>3. s.shortest = r.shortest /\ s.granted = r.granted
    BY <2>1 DEF Rounds
  <2>4. round' = [round EXCEPT ![b.from] = s]
    BY <1>4 DEF Noted
  <2> HIDE DEF s
  <2>5. s # None /\ r # None /\ r.shortest \in Nat
    BY <2>1, <2>2, NoneApart DEF Rounds
  <2>6. \A n \in Nodes : round'[n] = IF n = b.from THEN s ELSE round[n]
    BY <2>4, <1>1 DEF TypeOK
  <2>7. round' \in [Nodes -> Rounds \cup {None}]
    BY <2>2, <2>4, <1>1 DEF TypeOK
  <2> QED
    BY <1>2, <2>3, <2>5, <2>6, <2>7 DEF RoundsKept
<1> QED
  BY <1>3, <1>4

\* Whatever a door answers, the invariant needs only this of the step: the rounds
\* are as above, holds stay, and a grant is replaced only where no lease is live.
LEMMA AnswerKeeps ==
    ASSUME Inv, NEW b \in ballots,
           ballots' = ballots \ {b}, UNCHANGED <<clock, policy, cursor, store, led>>,
           voter' \in [Nodes -> Voters],
           RoundsKept,
           \A n \in Nodes : voter'[n].hold = voter[n].hold,
           \A n \in Nodes : MayWrite(n) => voter'[n].granted = voter[n].granted
    PROVE  Inv'
<1>1. TypeOK'
  BY DEF RoundsKept, Inv, TypeOK, clock, cursor, store
<1>2. BallotsOut'
  BY DEF RoundsKept, Inv, TypeOK, BallotsOut, Ballots
<1>3. RoundBounded'
  <2> SUFFICES ASSUME NEW n \in Nodes, round'[n] # None
               PROVE  round'[n].shortest <= voter'[n].hold /\ n \notin round'[n].granted
    BY DEF RoundBounded
  <2>1. round[n] # None /\ round[n] \in Rounds /\ round'[n] \in Rounds /\ voter[n] \in Voters
    BY DEF RoundsKept, Inv, TypeOK
  <2>2. round[n].shortest \in Nat /\ round'[n].shortest \in Nat /\ voter[n].hold \in Nat
    BY <2>1 DEF Rounds, Voters
  <2>3. round[n].shortest <= voter[n].hold /\ n \notin round[n].granted
    BY <2>1 DEF Inv, RoundBounded
  <2> QED
    BY <2>1, <2>2, <2>3 DEF RoundsKept
<1>4. \A n \in Nodes : MayWrite(n)' <=> MayWrite(n)
  BY DEF MayWrite, MayBeRunning, Window, Fence, Larger, clock, store
<1>5. LeaseBacked'
  BY <1>4 DEF Inv, LeaseBacked, Backed, cursor, store
<1> QED
  BY <1>1, <1>2, <1>3, <1>5 DEF Inv

LEMMA AnswerInv ==
    ASSUME Inv, NEW b \in ballots, Answer(b)
    PROVE  Inv'
<1> DEFINE v == b.to
           x == voter[v]
<1>1. b \in Ballots /\ v \in Nodes /\ b.from \in Nodes /\ b.epoch \in Epochs /\ b.from # v
  BY DEF Inv, TypeOK, Ballots, BallotsOut
<1>2. x \in Voters /\ now \in Int
  BY <1>1 DEF Inv, TypeOK
<1>3. ballots' = ballots \ {b} /\ UNCHANGED <<clock, policy, cursor, store, led>>
  BY DEF Answer
<1>4. UNCHANGED round =>
           RoundsKept
  <2>1. \A n \in Nodes : round[n] # None => round[n].shortest \in Nat
    BY DEF Inv, TypeOK, Rounds
  <2> QED
    BY <2>1 DEF Inv, TypeOK, RoundsKept
<1>5. CASE AnswerGranted(b)
  <2>1. PICK h \in BOOLEAN : Heard(b, h) /\ Counts(b, h, x.hold)
    BY <1>5 DEF AnswerGranted
  <2>2. x.hold \in Nat
    BY <1>2 DEF Voters
  <2> DEFINE y == Grant(x, b.epoch, b.from, now)
  <2>3. y \in Voters /\ y.hold = x.hold
    <3> HIDE DEF v, x
    <3> QED
      BY <1>1, <1>2, GrantWrites, ZenonT(60)
  <2>4. voter' = [voter EXCEPT ![v] = y]
    BY <1>5 DEF AnswerGranted
  <2>5. ~MayWrite(v)
    <3> SUFFICES ASSUME MayWrite(v) PROVE FALSE
      OBVIOUS
    <3>1. Backed(v)
      BY <1>1 DEF Inv, LeaseBacked, MayWrite
    <3>2. ~Free(x, b.from, now)
      BY <1>1, <3>1, BackedRefuses DEF Inv
    <3> QED
      BY <1>5, <3>2 DEF AnswerGranted, MayGrant
  <2> HIDE DEF y
  <2>6. voter' \in [Nodes -> Voters]
    BY <1>1, <2>3, <2>4 DEF Inv, TypeOK
  <2>7. \A n \in Nodes : voter'[n] = IF n = v THEN y ELSE voter[n]
    BY <1>1, <2>4 DEF Inv, TypeOK
  <2>8. \A n \in Nodes : voter'[n].hold = voter[n].hold
    BY <2>3, <2>7
  <2>9. \A n \in Nodes : MayWrite(n) => voter'[n].granted = voter[n].granted
    BY <2>5, <2>7
  <2>10. TypeOK /\ BallotsOut
    BY DEF Inv
  <2>11. RoundsKept
    BY <2>1, <2>2, <2>10, CountsRound
  <2> QED
    BY <1>3, <2>6, <2>8, <2>9, <2>11, AnswerKeeps
<1>6. CASE AnswerDecided(b)
  <2>1. DecidedAt(x, b.epoch) \in Epochs
    BY <1>1, <1>2, <1>6, DecidedType DEF AnswerDecided
  <2>2. PICK h \in BOOLEAN : Heard(b, h) /\ Noted(b, h, DecidedAt(x, b.epoch))
    BY <1>6 DEF AnswerDecided
  <2>3. TypeOK /\ BallotsOut /\ voter' = voter
    BY <1>6 DEF Inv, AnswerDecided
  <2>4. RoundsKept
    BY <2>1, <2>2, <2>3, NotedRound
  <2>5. voter' \in [Nodes -> Voters]
    BY <2>3 DEF TypeOK
  <2>6. \A n \in Nodes : voter'[n].hold = voter[n].hold
    BY <2>3
  <2>7. \A n \in Nodes : MayWrite(n) => voter'[n].granted = voter[n].granted
    BY <2>3
  <2> QED
    BY <1>3, <2>4, <2>5, <2>6, <2>7, AnswerKeeps
<1>7. CASE AnswerAlive(b) \/ AnswerBehind(b)
  <2>1. voter' = voter /\ round' = round /\ voter' \in [Nodes -> Voters]
    BY <1>7 DEF AnswerAlive, AnswerBehind, Inv, TypeOK
  <2> QED
    BY <1>3, <1>4, <2>1, AnswerKeeps
<1>8. CASE AnswerStarting(b)
  <2> DEFINE y == Adopt(x, b.epoch)
  <2>1. y \in Voters /\ y.hold = x.hold /\ y.granted = x.granted
    BY <1>1, <1>2, AdoptKeeps
  <2>2. voter' = [voter EXCEPT ![v] = y] /\ round' = round
    BY <1>8 DEF AnswerStarting
  <2> HIDE DEF y
  <2>3. voter' \in [Nodes -> Voters] /\ \A n \in Nodes : voter'[n] = IF n = v THEN y ELSE voter[n]
    BY <1>1, <2>1, <2>2 DEF Inv, TypeOK
  <2>4. \A n \in Nodes : voter'[n].hold = voter[n].hold /\ voter'[n].granted = voter[n].granted
    BY <2>1, <2>3
  <2> QED
    BY <1>3, <1>4, <2>2, <2>3, <2>4, AnswerKeeps
<1> QED
  BY <1>5, <1>6, <1>7, <1>8 DEF Answer

-----------------------------------------------------------------------------
(* The candidate's pass.                                                   *)

\* A ballot left behind by a node that stopped waiting is awaited by nobody.
LEMMA UnheardShape ==
    ASSUME TypeOK, BallotsOut, NEW n \in Nodes, NEW B \in Unheard(n), NEW b \in B
    PROVE  /\ b \in Ballots /\ b.from # b.to
           /\ b.live => b \in ballots /\ b.from # n
<1> DEFINE others == {a \in ballots : a.from # n}
           late == {[a EXCEPT !.live = FALSE] : a \in ballots \ others}
<1>1. b \in others \cup late
  BY DEF Unheard
<1>2. CASE b \in others
  BY <1>2 DEF TypeOK, BallotsOut
<1>3. CASE b \in late
  <2>1. PICK a \in ballots : b = [a EXCEPT !.live = FALSE]
    BY <1>3
  <2>2. a \in Ballots /\ a.from # a.to
    BY DEF TypeOK, BallotsOut
  <2>3. b \in Ballots /\ b.from = a.from /\ b.to = a.to /\ b.live = FALSE
    BY <2>1, <2>2 DEF Ballots
  <2> QED
    BY <2>2, <2>3
<1> QED
  BY <1>1, <1>2, <1>3

\* Setting a voter's hold to the installed policy leaves its grant alone.
LEMMA HeldKeeps ==
    ASSUME TypeOK, NEW n \in Nodes
    PROVE  Held(n) \in Voters /\ Held(n).hold = policy[n] /\ Held(n).granted = voter[n].granted
<1>1. voter[n] \in Voters /\ policy[n] \in Nat
  BY DEF TypeOK
<1> QED
  BY <1>1 DEF Held, Voters

\* A pass leaves every lease backed: it replaces no grant.
LEMMA PassKeeps ==
    ASSUME Inv, NEW n \in Nodes, voter' = [voter EXCEPT ![n] = Held(n)],
           UNCHANGED <<now, standing, lease>>
    PROVE  /\ voter' \in [Nodes -> Voters]
           /\ \A m \in Nodes : voter'[m] = IF m = n THEN Held(n) ELSE voter[m]
           /\ LeaseBacked'
<1>1. Held(n) \in Voters /\ Held(n).granted = voter[n].granted
  BY HeldKeeps DEF Inv
<1>2. \A m \in Nodes : voter'[m] = IF m = n THEN Held(n) ELSE voter[m]
  BY DEF Inv, TypeOK
<1>3. \A m \in Nodes : voter'[m].granted = voter[m].granted
  BY <1>1, <1>2
<1>4. \A m \in Nodes : MayWrite(m)' <=> MayWrite(m)
  BY DEF MayWrite, MayBeRunning, Window, Fence, Larger
<1>5. LeaseBacked'
  BY <1>3, <1>4 DEF Inv, LeaseBacked, Backed
<1>6. voter' \in [Nodes -> Voters]
  BY <1>1 DEF Inv, TypeOK
<1> QED
  BY <1>2, <1>5, <1>6

LEMMA PassInv ==
    ASSUME Inv, NEW n \in Nodes, Pass(n)
    PROVE  Inv'
<1>1. /\ voter' \in [Nodes -> Voters]
      /\ \A m \in Nodes : voter'[m] = IF m = n THEN Held(n) ELSE voter[m]
      /\ LeaseBacked'
  BY PassKeeps DEF Pass, clock, cursor, store
<1>2. TypeOK'
  BY <1>1 DEF Pass, Inv, TypeOK, clock, cursor, store
<1>3. BallotsOut'
  BY DEF Pass, Inv, BallotsOut
<1>4. RoundBounded'
  BY <1>1 DEF Pass, Idle, Inv, RoundBounded
<1> QED
  BY <1>1, <1>2, <1>3, <1>4 DEF Inv

LEMMA OpenInv ==
    ASSUME Inv, NEW n \in Nodes, Open(n)
    PROVE  Inv'
<1> DEFINE e == NextEpoch(n)
           r == [epoch |-> e, opened |-> now, shortest |-> policy[n], granted |-> {}, noted |-> 0]
           put == {[to |-> m, from |-> n, epoch |-> e, reached |-> Reached(n), live |-> TRUE] :
                     m \in Reaches[n] \ {n}}
<1>1. /\ voter' \in [Nodes -> Voters]
      /\ \A m \in Nodes : voter'[m] = IF m = n THEN Held(n) ELSE voter[m]
      /\ LeaseBacked'
  BY PassKeeps DEF Open, clock, cursor, store
<1>2. e \in Epochs
  BY NextEpochType DEF Open, Inv
<1>3. policy[n] \in Nat /\ now \in Int /\ 0 \in Epochs
  BY Parameters DEF Inv, TypeOK, Epochs
<1>4. Reached(n) \in [leadership : Epochs, tail : Nat]
  BY TailType, Parameters DEF Reached, Inv, TypeOK
<1>5. round' = [round EXCEPT ![n] = r] /\ ballots' = ballots \cup put
  BY DEF Open
<1> HIDE DEF e
<1>6. r \in Rounds /\ r.shortest = policy[n] /\ r.granted = {}
  BY <1>2, <1>3 DEF Rounds
<1>7. \A b \in put : b \in Ballots /\ b.from = n /\ b.to # n
  <2> SUFFICES ASSUME NEW m \in Reaches[n] \ {n}, NEW b,
                      b = [to |-> m, from |-> n, epoch |-> e, reached |-> Reached(n), live |-> TRUE]
               PROVE  b \in Ballots /\ b.from = n /\ b.to # n
    OBVIOUS
  <2>1. m \in Nodes /\ m # n
    BY Parameters
  <2> QED
    BY <1>2, <1>4, <2>1 DEF Ballots
<1> HIDE DEF r, put
<1>8. r # None
  BY <1>6, NoneApart
<1>9. \A m \in Nodes : round'[m] = IF m = n THEN r ELSE round[m]
  BY <1>5 DEF Inv, TypeOK
<1>10. round' \in [Nodes -> Rounds \cup {None}] /\ ballots' \subseteq Ballots
  BY <1>5, <1>6, <1>7 DEF Inv, TypeOK
<1>11. TypeOK'
  BY <1>1, <1>10 DEF Open, Inv, TypeOK, clock, cursor, store
<1>12. BallotsOut'
  <2>1. \A b \in ballots : b.from \in Nodes
    BY DEF Inv, TypeOK, Ballots
  <2> QED
    BY <1>5, <1>7, <1>8, <1>9, <2>1 DEF Inv, BallotsOut
<1>13. Held(n).hold = policy[n]
  BY HeldKeeps DEF Inv
<1>14. RoundBounded'
  BY <1>1, <1>3, <1>6, <1>9, <1>13 DEF Inv, RoundBounded
<1> QED
  BY <1>1, <1>11, <1>12, <1>14 DEF Inv

\* What the candidate's own vote does to its memory: its hold stays, and so does
\* its grant unless the vote is given.
LEMMA VotedKeeps ==
    ASSUME TypeOK, NEW n \in Nodes, NEW own, round[n] \in Rounds
    PROVE  /\ Voted(n, own) \in Voters /\ Voted(n, own).hold = voter[n].hold
           /\ own # "granted" => Voted(n, own).granted = voter[n].granted
           /\ own = "granted" => Voted(n, own).granted.epoch = round[n].epoch
<1>1. voter[n] \in Voters /\ round[n].epoch \in Epochs /\ round[n].opened \in Int
  BY DEF TypeOK, Rounds
<1>2. CASE own = "granted"
  <2>1. Voted(n, own) = Grant(voter[n], round[n].epoch, n, round[n].opened)
    BY <1>2 DEF Voted
  <2> DEFINE y == Grant(voter[n], round[n].epoch, n, round[n].opened)
  <2>2. y \in Voters /\ y.hold = voter[n].hold /\ y.granted =
          [epoch |-> round[n].epoch, candidate |-> n, at |-> round[n].opened, hold |-> voter[n].hold]
    BY <1>1, GrantWrites
  <2> HIDE DEF y
  <2>3. y.granted.epoch = round[n].epoch
    BY <2>2
  <2> QED
    BY <1>2, <2>1, <2>2, <2>3 DEF y
<1>3. CASE own = "starting"
  <2>1. Voted(n, own) = Adopt(voter[n], round[n].epoch)
    BY <1>3 DEF Voted
  <2> QED
    BY <1>1, <1>3, <2>1, AdoptKeeps
<1>4. CASE own # "granted" /\ own # "starting"
  <2>1. Voted(n, own) = voter[n]
    BY <1>4 DEF Voted
  <2> QED
    BY <1>1, <1>4, <2>1
<1> QED
  BY <1>2, <1>3, <1>4

\* A round is carried for no longer than the candidate itself would hold.
LEMMA LengthHeld ==
    ASSUME Inv, NEW n \in Nodes, NEW own, round[n] \in Rounds
    PROVE  Length(n, own) \in Nat /\ Length(n, own) <= voter[n].hold
<1>1. round[n].shortest \in Nat /\ voter[n].hold \in Nat
  BY DEF Inv, TypeOK, Rounds, Voters
<1>2. round[n].shortest <= voter[n].hold
  BY NoneApart DEF Inv, RoundBounded
<1> QED
  BY <1>1, <1>2 DEF Length, Smaller

LEMMA WonKeeps ==
    ASSUME Inv, NEW n \in Nodes, NEW own \in OwnVotes, round[n] \in Rounds,
           Won(n, own), now' = now
    PROVE  /\ voter' \in [Nodes -> Voters] /\ standing' \in [Nodes -> Leaderships]
           /\ lease' \in [Nodes -> Leaderships \cup {None}]
           /\ stood' \in [Nodes -> Epochs] /\ heard' = heard /\ led' \subseteq Epochs \X Nodes
           /\ \A m \in Nodes \ {n} : voter'[m] = voter[m]
           /\ LeaseBacked'
<1> DEFINE r == round[n]
           x == Voted(n, own)
           y == Grant(x, r.epoch, n, r.opened)
           won == [epoch |-> r.epoch, from |-> r.opened, length |-> Length(n, own)]
<1>1. r.epoch \in Epochs /\ r.opened \in Int
  BY DEF Rounds
<1>2. Length(n, own) \in Nat /\ Length(n, own) <= voter[n].hold
  BY LengthHeld
<1>3. x \in Voters /\ x.hold = voter[n].hold
  BY VotedKeeps DEF Inv
<1>4. /\ y \in Voters
      /\ y.granted = [epoch |-> r.epoch, candidate |-> n, at |-> r.opened, hold |-> x.hold]
      /\ y.granted # None
  <2> HIDE DEF r, x
  <2> QED
    BY <1>1, <1>3, GrantWrites
<1>5. won \in Leaderships /\ won.epoch = r.epoch /\ won.from = r.opened /\ won.length = Length(n, own)
  BY <1>1, <1>2 DEF Leaderships
<1>6. /\ voter' = [voter EXCEPT ![n] = y] /\ standing' = [standing EXCEPT ![n] = won]
      /\ lease' = [lease EXCEPT ![n] = won] /\ stood' = [stood EXCEPT ![n] = r.epoch]
      /\ led' = led \cup {<<r.epoch, n>>} /\ heard' = heard
  BY DEF Won, Carried
<1> HIDE DEF r, x, y, won
<1>7. /\ voter' \in [Nodes -> Voters] /\ standing' \in [Nodes -> Leaderships]
      /\ lease' \in [Nodes -> Leaderships \cup {None}]
      /\ stood' \in [Nodes -> Epochs] /\ led' \subseteq Epochs \X Nodes
  BY <1>1, <1>4, <1>5, <1>6 DEF Inv, TypeOK
<1>8. \A m \in Nodes : /\ voter'[m] = IF m = n THEN y ELSE voter[m]
                       /\ standing'[m] = IF m = n THEN won ELSE standing[m]
                       /\ lease'[m] = IF m = n THEN won ELSE lease[m]
  BY <1>6 DEF Inv, TypeOK
<1>9. lease'[n] = standing'[n] /\ Backed(n)'
  <2>1. y.granted.candidate = n /\ y.granted.epoch = won.epoch
        /\ y.granted.at = won.from /\ y.granted.hold >= won.length
    BY <1>2, <1>3, <1>4, <1>5
  <2>2. won.from \in Int
    BY <1>1, <1>5
  <2> QED
    BY <1>4, <1>8, <2>1, <2>2 DEF Backed
<1>10. \A m \in Nodes \ {n} : lease'[m] # None =>
          lease'[m] = standing'[m] /\ (MayWrite(m)' => Backed(m)')
  <2> SUFFICES ASSUME NEW m \in Nodes \ {n}, lease'[m] # None
               PROVE  lease'[m] = standing'[m] /\ (MayWrite(m)' => Backed(m)')
    OBVIOUS
  <2>1. voter'[m] = voter[m] /\ standing'[m] = standing[m] /\ lease'[m] = lease[m]
    BY <1>8
  <2>2. MayWrite(m)' <=> MayWrite(m)
    BY <2>1 DEF MayWrite, MayBeRunning, Window, Fence, Larger
  <2>3. Backed(m)' <=> Backed(m)
    BY <2>1 DEF Backed
  <2> QED
    BY <2>1, <2>2, <2>3 DEF Inv, LeaseBacked
<1>11. LeaseBacked'
  BY <1>9, <1>10 DEF LeaseBacked
<1> QED
  BY <1>6, <1>7, <1>8, <1>11

LEMMA LostKeeps ==
    ASSUME Inv, NEW n \in Nodes, NEW own \in OwnVotes, round[n] \in Rounds,
           OwnVote(n, own), Lost(n, own), now' = now
    PROVE  /\ voter' \in [Nodes -> Voters] /\ standing' = standing /\ lease' = lease
           /\ stood' \in [Nodes -> Epochs] /\ heard' \in [Nodes -> Epochs] /\ led' = led
           /\ \A m \in Nodes \ {n} : voter'[m] = voter[m]
           /\ LeaseBacked'
<1> DEFINE r == round[n]
           x == Voted(n, own)
<1>1. r.epoch \in Epochs /\ r.noted \in Epochs /\ n \notin r.granted
  BY NoneApart DEF Rounds, Inv, RoundBounded
<1>2. /\ x \in Voters
      /\ own # "granted" => x.granted = voter[n].granted
      /\ own = "granted" => x.granted.epoch = r.epoch
  BY VotedKeeps DEF Inv
<1>3. own # "granted"
  <2> SUFFICES ASSUME own = "granted" PROVE FALSE
    OBVIOUS
  <2>1. Cardinality(Votes(n, own)) >= Majority
    BY <1>1, OwnVoteCarries
  <2>2. ~Promised(x, r.epoch)
    BY <1>1, <1>2 DEF Promised, Epochs
  <2>3. Cardinality(Votes(n, own)) \in Nat /\ Majority \in Int
    <3>1. Votes(n, own) \subseteq Nodes
      BY DEF Votes, Rounds
    <3> QED
      BY <3>1, Parameters, FS_Subset, FS_CardinalityType DEF Majority
  <2> QED
    BY <2>1, <2>2, <2>3 DEF Lost
<1>4. Told(n, own) \in Epochs
  <2>1. (IF own = "decided" THEN DecidedAt(voter[n], r.epoch) ELSE 0) \in Epochs
    <3>1. CASE own = "decided"
      <4>1. Decided(voter[n], r.epoch, n)
        BY <3>1 DEF OwnVote
      <4>2. voter[n] \in Voters
        BY DEF Inv, TypeOK
      <4> QED
        BY <1>1, <3>1, <4>1, <4>2, DecidedType
    <3> QED
      BY <3>1, Parameters DEF Epochs
  <2>2. Promised(x, r.epoch) => x.granted.epoch \in Epochs
    BY <1>2 DEF Promised, Voters, Grants
  <2>3. \A i, j \in Epochs : Larger(i, j) \in Epochs
    BY DEF Larger
  <2>4. (IF Promised(x, r.epoch) /\ Cardinality(Votes(n, own)) >= Majority
         THEN x.granted.epoch ELSE 0) \in Epochs
    BY <2>2, Parameters DEF Epochs
  <2> QED
    BY <1>1, <2>1, <2>3, <2>4 DEF Told
<1>5. /\ voter' = [voter EXCEPT ![n] = x] /\ standing' = standing /\ lease' = lease /\ led' = led
      /\ stood' = [stood EXCEPT ![n] = r.epoch]
      /\ heard' = [heard EXCEPT ![n] = Larger(@, Told(n, own))]
  BY DEF Lost
<1>6. Larger(heard[n], Told(n, own)) \in Epochs
  BY <1>4 DEF Larger, Inv, TypeOK
<1> HIDE DEF r, x
<1>7. /\ voter' \in [Nodes -> Voters] /\ stood' \in [Nodes -> Epochs] /\ heard' \in [Nodes -> Epochs]
  BY <1>1, <1>2, <1>5, <1>6 DEF Inv, TypeOK
<1>8. \A m \in Nodes : voter'[m] = IF m = n THEN x ELSE voter[m]
  BY <1>5 DEF Inv, TypeOK
<1>9. \A m \in Nodes : voter'[m].granted = voter[m].granted
  BY <1>2, <1>3, <1>8
<1>10. \A m \in Nodes : MayWrite(m)' <=> MayWrite(m)
  BY <1>5 DEF MayWrite, MayBeRunning, Window, Fence, Larger
<1>11. LeaseBacked'
  BY <1>5, <1>9, <1>10 DEF Inv, LeaseBacked, Backed
<1> QED
  BY <1>5, <1>7, <1>8, <1>11

LEMMA CloseInv ==
    ASSUME Inv, NEW n \in Nodes, Close(n)
    PROVE  Inv'
<1>1. round[n] \in Rounds /\ now' = now
  BY DEF Close, Inv, TypeOK, clock
<1>2. PICK own \in OwnVotes : OwnVote(n, own) /\ (Won(n, own) \/ Lost(n, own))
  BY DEF Close
<1>3. /\ voter' \in [Nodes -> Voters] /\ standing' \in [Nodes -> Leaderships]
      /\ lease' \in [Nodes -> Leaderships \cup {None}]
      /\ stood' \in [Nodes -> Epochs] /\ heard' \in [Nodes -> Epochs]
      /\ led' \subseteq Epochs \X Nodes
      /\ \A m \in Nodes \ {n} : voter'[m] = voter[m]
      /\ LeaseBacked'
  <2>1. CASE Won(n, own)
    BY <1>1, <2>1, WonKeeps DEF Inv, TypeOK
  <2>2. CASE Lost(n, own)
    BY <1>1, <1>2, <2>2, LostKeeps DEF Inv, TypeOK
  <2> QED
    BY <1>2, <2>1, <2>2
<1>4. round' = [round EXCEPT ![n] = None] /\ ballots' \in Unheard(n)
  BY DEF Close
<1>5. \A m \in Nodes : round'[m] = IF m = n THEN None ELSE round[m]
  BY <1>4 DEF Inv, TypeOK
<1>6. \A b \in ballots' : b \in Ballots /\ b.from # b.to /\ (b.live => b \in ballots /\ b.from # n)
  BY <1>4, UnheardShape DEF Inv
<1>7. TypeOK'
  BY <1>3, <1>4, <1>6 DEF Close, Inv, TypeOK, clock
<1>8. BallotsOut'
  <2>1. \A b \in ballots' : b.from \in Nodes
    BY <1>6 DEF Ballots
  <2> QED
    BY <1>5, <1>6, <2>1 DEF Inv, BallotsOut
<1>9. RoundBounded'
  BY <1>3, <1>5 DEF Inv, RoundBounded
<1> QED
  BY <1>3, <1>7, <1>8, <1>9 DEF Inv

\* A node that starts again holds nothing: no round, no lease, no grant.
LEMMA RestartInv ==
    ASSUME Inv, NEW n \in Nodes, Restart(n)
    PROVE  Inv'
<1> DEFINE y == [Started(now) EXCEPT !.hold = policy[n]]
<1>1. now \in Int /\ policy[n] \in Nat
  BY DEF Inv, TypeOK
<1>2. y \in Voters
  BY <1>1, StartedType
<1>3. Spent(now) \in Leaderships /\ TailLeadership(n) \in Epochs /\ 0 \in Epochs
  BY <1>1, SpentType, TailType, Parameters DEF Inv, TypeOK, Epochs
<1>4. PICK left \in Unheard(n) : ballots' = {b \in left : b.to # n}
  BY DEF Restart
<1>5. \A b \in ballots' : b \in Ballots /\ b.from # b.to /\ (b.live => b \in ballots /\ b.from # n)
  BY <1>4, UnheardShape DEF Inv
<1>6. voter' = [voter EXCEPT ![n] = y]
  BY DEF Restart
<1> HIDE DEF y
<1>7. /\ voter' \in [Nodes -> Voters]
      /\ \A m \in Nodes \ {n} : voter'[m] = voter[m] /\ round'[m] = round[m]
                                /\ lease'[m] = lease[m] /\ standing'[m] = standing[m]
      /\ round'[n] = None /\ lease'[n] = None
  BY <1>2, <1>6 DEF Restart, Inv, TypeOK
<1>8. TypeOK'
  <2>1. standing' \in [Nodes -> Leaderships] /\ stood' \in [Nodes -> Epochs]
        /\ heard' \in [Nodes -> Epochs] /\ leading' \in [Nodes -> Epochs]
    BY <1>3 DEF Restart, Inv, TypeOK
  <2>2. round' \in [Nodes -> Rounds \cup {None}] /\ lease' \in [Nodes -> Leaderships \cup {None}]
        /\ commit' \in [Nodes -> Epochs \cup {None}]
    BY DEF Restart, Inv, TypeOK
  <2>3. restarts' \in 0..MaxRestarts
    <3>1. restarts < MaxRestarts /\ restarts' = restarts + 1
      BY DEF Restart
    <3>2. restarts \in 0..MaxRestarts
      BY DEF Inv, TypeOK
    <3> QED
      BY <3>1, <3>2, Parameters
  <2> QED
    BY <1>5, <1>7, <2>1, <2>2, <2>3 DEF Restart, Inv, TypeOK
<1>9. BallotsOut'
  <2>1. \A b \in ballots' : b.from \in Nodes
    BY <1>5 DEF Ballots
  <2> QED
    BY <1>5, <1>7, <2>1 DEF Inv, BallotsOut
<1>10. RoundBounded'
  BY <1>7 DEF Inv, RoundBounded
<1>11. LeaseBacked'
  <2> SUFFICES ASSUME NEW m \in Nodes \ {n}, lease'[m] # None
               PROVE  lease'[m] = standing'[m] /\ (MayWrite(m)' => Backed(m)')
    BY <1>7 DEF LeaseBacked
  <2>1. MayWrite(m)' <=> MayWrite(m)
    BY <1>7 DEF Restart, MayWrite, MayBeRunning, Window, Fence, Larger
  <2>2. Backed(m)' <=> Backed(m)
    BY <1>7 DEF Backed
  <2> QED
    BY <1>7, <2>1, <2>2 DEF Inv, LeaseBacked
<1> QED
  BY <1>8, <1>9, <1>10, <1>11 DEF Inv

-----------------------------------------------------------------------------
LEMMA NextInv == Inv /\ [Next]_vars => Inv'
<1> SUFFICES ASSUME Inv, [Next]_vars PROVE Inv'
  OBVIOUS
<1>1. CASE Tick
  BY <1>1, TickInv
<1>2. CASE \E b \in ballots : Answer(b)
  BY <1>2, AnswerInv
<1>3. ASSUME NEW n \in Nodes, Pass(n) \/ Open(n) \/ Close(n) \/ Name(n)
  PROVE Inv'
  BY <1>3, PassInv, OpenInv, CloseInv, NameInv
<1>4. ASSUME NEW n \in Nodes, Admit(n) \/ Land(n) \/ RefuseFenced(n) \/ Restart(n)
  PROVE Inv'
  BY <1>4, AdmitInv, LandInv, RefuseFencedInv, RestartInv
<1>5. ASSUME NEW n \in Nodes, NEW m \in Nodes, Collect(n, m)
  PROVE Inv'
  BY <1>5, CollectInv
<1>6. ASSUME NEW n \in Nodes, NEW d \in Policies, Install(n, d)
  PROVE Inv'
  BY <1>6, InstallInv
<1>7. CASE UNCHANGED vars
  <2>1. TypeOK'
    BY <1>7 DEF vars, Inv, TypeOK
  <2> QED
    BY <1>7, <2>1, SameBacking DEF vars, Inv
<1> QED
  BY <1>1, <1>2, <1>3, <1>4, <1>5, <1>6, <1>7 DEF Next

\* Every node's memory, store and log stay what the structs of grant.rs,
\* renewing.rs and lease.rs can hold, and no epoch appears that was not stood at.
THEOREM LeadershipTyped == Spec => []TypeOK
<1>1. Inv => TypeOK
  BY DEF Inv
<1> QED
  BY <1>1, InitInv, NextInv, PTL DEF Spec

\* Whatever restarts, drifts, is lost or is re-policied, a node inside its fence
\* is the one its own voter granted, at the epoch it writes under: the self-vote
\* and Voter::carried keep a leader's own door shut to challengers.
THEOREM OwnVoterHeld == Spec => []OwnVoterHolds
<1>1. Inv => OwnVoterHolds
  BY DEF Inv, LeaseBacked, Backed, OwnVoterHolds, MayWrite
<1> QED
  BY <1>1, InitInv, NextInv, PTL DEF Spec

=============================================================================
