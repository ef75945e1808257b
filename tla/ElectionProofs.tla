--------------------------- MODULE ElectionProofs ---------------------------
(***************************************************************************)
(* What one grant per epoch gives, as long as no voter forgets: one winner *)
(* per epoch, hence one author, hence copies of one history.               *)
(*                                                                         *)
(* A voter keeps only its newest grant, so which votes a past epoch was    *)
(* won by cannot be read off a state.  The invariant says that they can be *)
(* told consistently: there is a record of who got which vote that every   *)
(* voter, every open round and every leadership agrees with.  It has to    *)
(* allow for Voter::carried, which may overwrite a grant of the same epoch *)
(* to somebody else: the vote stays the other's, the epoch is this node's. *)
(***************************************************************************)
EXTENDS LeadershipProofs, SequenceTheorems

\* A ballot still awaited is of the epoch its round stands at.
LiveIsCurrent ==
    \A b \in ballots : b.live => round[b.from] # None /\ round[b.from].epoch = b.epoch

\* Who got each voter's vote of each epoch.
Histories == [Nodes -> [Epochs -> Nodes \cup {None}]]

\* No voter has given a vote above its newest grant.
NoneAbove(V) ==
    \A v \in Nodes, e \in Epochs : V[v][e] # None =>
        voter[v].granted # None /\ e <= voter[v].granted.epoch

\* A voter's newest grant is the vote it gave, or a leadership of its own.
NewestAgrees(V) ==
    \A v \in Nodes : voter[v].granted # None =>
        \/ V[v][voter[v].granted.epoch] = voter[v].granted.candidate
        \/ voter[v].granted.candidate = v /\ <<voter[v].granted.epoch, v>> \in led

\* The votes a round has counted were given to its candidate.
RoundsAgree(V) ==
    \A n \in Nodes : round[n] # None => \A v \in round[n].granted : V[v][round[n].epoch] = n

\* Every leadership was won by a majority.
Supported(V, e, n) ==
    \E Q \in SUBSET Nodes : Cardinality(Q) >= Majority /\ \A v \in Q : V[v][e] = n
LedAgrees(V) == \A e \in Epochs, n \in Nodes : <<e, n>> \in led => Supported(V, e, n)

Agrees(V) == NoneAbove(V) /\ NewestAgrees(V) /\ RoundsAgree(V) /\ LedAgrees(V)

Votable == LiveIsCurrent /\ \E V \in Histories : Agrees(V)

\* A vote given.
Cast(V, v, e, c) == [V EXCEPT ![v][e] = c]

-----------------------------------------------------------------------------
(* Steps that give no vote, and the giving of one.                         *)

LEMMA EpochsAreInts == Epochs \subseteq Int
BY DEF Epochs

\* What a step may do to a round without touching its votes.
SameRounds ==
    \A n \in Nodes : round'[n] # None =>
        \/ round'[n].granted = {}
        \/ /\ round[n] # None
           /\ round'[n].epoch = round[n].epoch /\ round'[n].granted = round[n].granted

LEMMA QuietAgrees ==
    ASSUME NEW V \in Histories, Agrees(V), SameRounds, led' = led,
           \A v \in Nodes : voter'[v].granted = voter[v].granted
    PROVE  Agrees(V)'
<1>1. NoneAbove(V)'
  BY DEF Agrees, NoneAbove
<1>2. NewestAgrees(V)'
  BY DEF Agrees, NewestAgrees
<1>3. RoundsAgree(V)'
  BY DEF Agrees, RoundsAgree, SameRounds
<1>4. LedAgrees(V)'
  BY DEF Agrees, LedAgrees, Supported
<1> QED
  BY <1>1, <1>2, <1>3, <1>4 DEF Agrees

LEMMA CastIs ==
    ASSUME NEW V \in Histories, NEW v \in Nodes, NEW e \in Epochs, NEW c \in Nodes
    PROVE  /\ Cast(V, v, e, c) \in Histories
           /\ \A u \in Nodes, d \in Epochs :
                Cast(V, v, e, c)[u][d] = IF u = v /\ d = e THEN c ELSE V[u][d]
BY DEF Cast, Histories

\* A voter that has not voted at e otherwise gives c its vote, and c's round may count it.
LEMMA CastAgrees ==
    ASSUME TypeOK, NEW V \in Histories, Agrees(V),
           NEW v \in Nodes, NEW e \in Epochs, NEW c \in Nodes,
           V[v][e] \in {None, c},
           voter[v].granted # None => voter[v].granted.epoch <= e,
           voter'[v].granted # None,
           voter'[v].granted.epoch = e, voter'[v].granted.candidate = c,
           \A u \in Nodes \ {v} : voter'[u].granted = voter[u].granted,
           \A n \in Nodes : round'[n] # None =>
              /\ round[n] # None /\ round'[n].epoch = round[n].epoch
              /\ \/ round'[n].granted = round[n].granted
                 \/ n = c /\ round[n].epoch = e /\ round'[n].granted = round[n].granted \cup {v},
           led \subseteq led',
           \A d \in Epochs, n \in Nodes : <<d, n>> \in led' =>
              <<d, n>> \in led \/ Supported(Cast(V, v, e, c), d, n)
    PROVE  Agrees(Cast(V, v, e, c))'
<1> DEFINE W == Cast(V, v, e, c)
<1>1. W \in Histories /\ \A u \in Nodes, d \in Epochs : W[u][d] = IF u = v /\ d = e THEN c ELSE V[u][d]
  BY CastIs
<1>2. \A u \in Nodes, d \in Epochs : V[u][d] # None => W[u][d] = V[u][d]
  BY <1>1
<1>3. c # None
  BY LeaseAssumption
<1> HIDE DEF W
<1>4. NoneAbove(W)'
  <2> SUFFICES ASSUME NEW u \in Nodes, NEW d \in Epochs, W[u][d] # None
               PROVE  voter'[u].granted # None /\ d <= voter'[u].granted.epoch
    BY DEF NoneAbove
  <2>1. CASE u # v
    BY <1>1, <2>1 DEF Agrees, NoneAbove
  <2>2. CASE u = v /\ d = e
    BY <2>2, EpochsAreInts
  <2>3. CASE u = v /\ d # e
    <3>1. voter[v].granted # None /\ d <= voter[v].granted.epoch
      BY <1>1, <2>3 DEF Agrees, NoneAbove
    <3>2. voter[v].granted.epoch \in Epochs
      BY <3>1 DEF TypeOK, Voters, Grants
    <3>3. d \in Int /\ e \in Int /\ voter[v].granted.epoch \in Int
      BY <3>2, EpochsAreInts
    <3>4. voter[v].granted.epoch <= e
      BY <3>1
    <3>5. d <= e
      BY <3>1, <3>3, <3>4
    <3> QED
      BY <2>3, <3>5
  <2> QED
    BY <2>1, <2>2, <2>3
<1>5. NewestAgrees(W)'
  <2> SUFFICES ASSUME NEW u \in Nodes, voter'[u].granted # None
               PROVE  \/ W[u][voter'[u].granted.epoch] = voter'[u].granted.candidate
                      \/ voter'[u].granted.candidate = u /\ <<voter'[u].granted.epoch, u>> \in led'
    BY DEF NewestAgrees
  <2>1. CASE u = v
    BY <1>1, <2>1
  <2>2. CASE u # v
    <3>1. voter'[u].granted = voter[u].granted /\ voter[u].granted.epoch \in Epochs
      BY <2>2 DEF TypeOK, Voters, Grants
    <3>2. W[u][voter[u].granted.epoch] = V[u][voter[u].granted.epoch]
      BY <1>1, <2>2, <3>1
    <3> QED
      BY <3>1, <3>2 DEF Agrees, NewestAgrees
  <2> QED
    BY <2>1, <2>2
<1>6. RoundsAgree(W)'
  <2> SUFFICES ASSUME NEW n \in Nodes, round'[n] # None, NEW u \in round'[n].granted
               PROVE  W[u][round'[n].epoch] = n
    BY DEF RoundsAgree
  <2>1. round[n] \in Rounds /\ round'[n].epoch = round[n].epoch /\ round[n].epoch \in Epochs
    BY DEF TypeOK, Rounds
  <2>2. CASE u \in round[n].granted
    <3>1. V[u][round[n].epoch] = n /\ u \in Nodes /\ n # None
      BY <2>1, <2>2, LeaseAssumption DEF Agrees, RoundsAgree, Rounds
    <3> QED
      BY <1>2, <2>1, <3>1
  <2>3. CASE u \notin round[n].granted
    <3>1. n = c /\ round[n].epoch = e /\ u = v
      BY <2>3
    <3> QED
      BY <1>1, <2>1, <3>1
  <2> QED
    BY <2>2, <2>3
<1>7. LedAgrees(W)'
  <2> SUFFICES ASSUME NEW d \in Epochs, NEW n \in Nodes, <<d, n>> \in led'
               PROVE  Supported(W, d, n)
    BY DEF LedAgrees, Supported
  <2>1. CASE <<d, n>> \in led
    <3>1. PICK Q \in SUBSET Nodes : Cardinality(Q) >= Majority /\ \A u \in Q : V[u][d] = n
      BY <2>1 DEF Agrees, LedAgrees, Supported
    <3>2. \A u \in Q : W[u][d] = n
      BY <1>2, <3>1, LeaseAssumption
    <3> QED
      BY <3>1, <3>2 DEF Supported
  <2> QED
    BY <2>1 DEF W
<1> QED
  BY <1>4, <1>5, <1>6, <1>7 DEF Agrees, W

-----------------------------------------------------------------------------
(* The steps.                                                              *)

LEMMA InitVotable == Init => Votable
<1> SUFFICES ASSUME Init PROVE Votable
  OBVIOUS
<1> DEFINE V == [v \in Nodes |-> [e \in Epochs |-> None]]
<1>1. V \in Histories
  BY DEF Histories
<1>2. \A v \in Nodes : voter[v].granted = None /\ round[v] = None
  BY DEF Init, Started
<1>3. Agrees(V)
  BY <1>2 DEF Agrees, NoneAbove, NewestAgrees, RoundsAgree, LedAgrees, Init
<1>4. LiveIsCurrent
  BY DEF LiveIsCurrent, Init
<1> QED
  BY <1>1, <1>3, <1>4 DEF Votable

\* A step that gives no vote, wins nothing and leaves awaited ballots their rounds.
LEMMA QuietVotable ==
    ASSUME Votable, SameRounds, led' = led,
           \A v \in Nodes : voter'[v].granted = voter[v].granted,
           LiveIsCurrent'
    PROVE  Votable'
<1>1. PICK V \in Histories : Agrees(V)
  BY DEF Votable
<1>2. Agrees(V)'
  BY <1>1, QuietAgrees
<1> QED
  BY <1>2 DEF Votable

\* Steps that leave voters, rounds and ballots alone.
LEMMA AsideVotable ==
    ASSUME Votable, UNCHANGED <<voter, round, ballots, led>>
    PROVE  Votable'
<1>1. LiveIsCurrent' /\ SameRounds
  BY DEF Votable, LiveIsCurrent, SameRounds
<1> QED
  BY <1>1, QuietVotable

\* A pass adopts a hold, and opening a round puts ballots of its epoch.
LEMMA PassVotable ==
    ASSUME Inv, Votable, NEW n \in Nodes, Pass(n)
    PROVE  Votable'
<1>1. \A v \in Nodes : voter'[v].granted = voter[v].granted
  BY DEF Pass, Held, Inv, TypeOK, Voters
<1>2. LiveIsCurrent' /\ SameRounds /\ led' = led
  BY DEF Pass, Votable, LiveIsCurrent, SameRounds
<1> QED
  BY <1>1, <1>2, QuietVotable

LEMMA OpenVotable ==
    ASSUME Inv, Votable, NEW n \in Nodes, Open(n)
    PROVE  Votable'
<1>1. \A v \in Nodes : voter'[v].granted = voter[v].granted
  BY DEF Open, Held, Inv, TypeOK, Voters
<1>2. round[n] = None /\ led' = led
  BY DEF Open, Idle
<1>3. \A m \in Nodes : IF m = n THEN round'[m] # None /\ round'[m].epoch = NextEpoch(n) /\ round'[m].granted = {}
                       ELSE round'[m] = round[m]
  <2> DEFINE r == [epoch |-> NextEpoch(n), opened |-> now, shortest |-> policy[n], granted |-> {}, noted |-> 0]
  <2>1. r # None
    <3>1. NextEpoch(n) \in Epochs
      BY NextEpochType DEF Open, Inv
    <3>2. now \in Int /\ policy[n] \in Nat
      BY DEF Inv, TypeOK
    <3>3. 0 \in Epochs
      BY Parameters DEF Epochs
    <3>4. r \in Rounds
      BY <3>1, <3>2, <3>3 DEF Rounds
    <3> QED
      BY <3>4, NoneApart
  <2>2. round' = [round EXCEPT ![n] = r]
    BY DEF Open
  <2> QED
    BY <2>1, <2>2 DEF Inv, TypeOK
<1>4. SameRounds
  BY <1>3 DEF SameRounds
<1>5. LiveIsCurrent'
  <2> SUFFICES ASSUME NEW b \in ballots', b.live
               PROVE  round'[b.from] # None /\ round'[b.from].epoch = b.epoch
    BY DEF LiveIsCurrent
  <2>1. CASE b \in ballots
    <3>1. b.from \in Nodes /\ round[b.from] # None /\ round[b.from].epoch = b.epoch
      BY <2>1 DEF Votable, LiveIsCurrent, Inv, TypeOK, Ballots
    <3> QED
      BY <1>2, <1>3, <3>1
  <2>2. CASE b \notin ballots
    <3>1. b.from = n /\ b.epoch = NextEpoch(n)
      BY <2>2 DEF Open
    <3> QED
      BY <1>3, <3>1
  <2> QED
    BY <2>1, <2>2
<1> QED
  BY <1>1, <1>2, <1>4, <1>5, QuietVotable

\* A vote is given to one candidate: what a voter has not decided is not given yet, or
\* given to the one that asks again.
LEMMA Undecided ==
    ASSUME TypeOK, NEW V \in Histories, NoneAbove(V), NewestAgrees(V),
           NEW v \in Nodes, NEW e \in Epochs, NEW c \in Nodes, ~Decided(voter[v], e, c)
    PROVE  /\ voter[v].granted # None => voter[v].granted.epoch <= e
           /\ \/ V[v][e] \in {None, c}
              \/ c = v /\ <<e, v>> \in led
<1> DEFINE g == voter[v].granted
<1>1. CASE g = None
  BY <1>1 DEF NoneAbove
<1>2. CASE g # None
  <2>1. g.epoch \in Int /\ e \in Int
    BY <1>2, EpochsAreInts DEF TypeOK, Voters, Grants
  <2>2. g.epoch <= e /\ (g.epoch = e => g.candidate = c)
    BY <1>2, <2>1 DEF Decided
  <2>3. CASE g.epoch = e
    BY <1>2, <2>2, <2>3 DEF NewestAgrees
  <2>4. CASE g.epoch # e
    <3>1. ~(e <= g.epoch)
      BY <2>1, <2>2, <2>4
    <3>2. V[v][e] = None
      BY <3>1 DEF NoneAbove
    <3> QED
      BY <2>2, <3>2
  <2> QED
    BY <2>3, <2>4
<1> QED
  BY <1>1, <1>2

LEMMA AnswerGrantedVotable ==
    ASSUME Inv, Votable, NEW b \in ballots, AnswerGranted(b),
           ballots' = ballots \ {b}, led' = led
    PROVE  Votable'
<1>1. /\ b.from \in Nodes /\ b.to \in Nodes /\ b.from # b.to /\ b.epoch \in Epochs
      /\ b.live => round[b.from] # None /\ round[b.from].epoch = b.epoch
  BY DEF Inv, TypeOK, Ballots, BallotsOut, Votable, LiveIsCurrent
<1>2. PICK V \in Histories : Agrees(V)
  BY DEF Votable
<1>3. PICK h \in BOOLEAN : Heard(b, h) /\ Counts(b, h, voter[b.to].hold)
  BY DEF AnswerGranted
<1>4. ~Decided(voter[b.to], b.epoch, b.from)
  BY DEF AnswerGranted, MayGrant
<1>5. /\ V[b.to][b.epoch] \in {None, b.from}
      /\ voter[b.to].granted # None => voter[b.to].granted.epoch <= b.epoch
  <2>1. TypeOK /\ NoneAbove(V) /\ NewestAgrees(V)
    BY <1>2 DEF Inv, Agrees
  <2>2. /\ voter[b.to].granted # None => voter[b.to].granted.epoch <= b.epoch
        /\ V[b.to][b.epoch] \in {None, b.from} \/ (b.from = b.to /\ <<b.epoch, b.to>> \in led)
    BY ONLY <1>1, <1>4, <2>1, V \in Histories, Undecided
  <2> QED
    BY <1>1, <2>2
<1>6. /\ voter'[b.to].granted # None
      /\ voter'[b.to].granted.epoch = b.epoch /\ voter'[b.to].granted.candidate = b.from
      /\ \A u \in Nodes \ {b.to} : voter'[u].granted = voter[u].granted
  <2> DEFINE y == Grant(voter[b.to], b.epoch, b.from, now)
  <2>1. voter[b.to] \in Voters /\ now \in Int
    BY <1>1 DEF Inv, TypeOK
  <2>2. /\ y.granted = [epoch |-> b.epoch, candidate |-> b.from, at |-> now, hold |-> voter[b.to].hold]
        /\ y.granted # None
    BY <1>1, <2>1, GrantWrites
  <2>3. voter' = [voter EXCEPT ![b.to] = y]
    BY DEF AnswerGranted
  <2> HIDE DEF y
  <2> QED
    BY <1>1, <2>2, <2>3 DEF Inv, TypeOK
<1>7. \A n \in Nodes :
        /\ round'[n] # None => round[n] # None
        /\ round[n] # None => round'[n] # None
        /\ round[n] # None =>
             /\ round'[n].epoch = round[n].epoch
             /\ \/ round'[n].granted = round[n].granted
                \/ n = b.from /\ round[n].epoch = b.epoch /\ round'[n].granted = round[n].granted \cup {b.to}
  <2>1. CASE ~h
    BY <1>3, <2>1 DEF Counts
  <2>2. CASE h
    <3> DEFINE r == round[b.from]
               s == [r EXCEPT !.granted = @ \cup {b.to}, !.shortest = Smaller(@, voter[b.to].hold)]
    <3>1. r \in Rounds /\ r.epoch = b.epoch
      BY <1>1, <1>3, <2>2 DEF Inv, TypeOK, Heard
    <3>2. voter[b.to].hold \in Nat
      BY <1>1 DEF Inv, TypeOK, Voters
    <3>3. s \in Rounds
      BY <1>1, <3>1, <3>2 DEF Rounds, Smaller
    <3>4. s # None /\ r # None /\ s.epoch = r.epoch /\ s.granted = r.granted \cup {b.to}
      BY <3>1, <3>3, NoneApart DEF Rounds
    <3>5. round' = [round EXCEPT ![b.from] = s]
      BY <1>3, <2>2 DEF Counts
    <3> HIDE DEF s
    <3>6. \A n \in Nodes : round'[n] = IF n = b.from THEN s ELSE round[n]
      BY <1>1, <3>5 DEF Inv, TypeOK
    <3> QED
      BY <3>1, <3>4, <3>6
  <2> QED
    BY <2>1, <2>2
<1>8. Agrees(Cast(V, b.to, b.epoch, b.from))'
  <2>1. TypeOK
    BY DEF Inv
  <2> QED
    BY <1>1, <1>2, <1>5, <1>6, <1>7, <2>1, CastAgrees
<1>9. Cast(V, b.to, b.epoch, b.from) \in Histories
  BY <1>1, CastIs
<1>10. LiveIsCurrent'
  <2>1. \A d \in ballots : d.from \in Nodes
    BY DEF Inv, TypeOK, Ballots
  <2> QED
    BY <1>7, <2>1 DEF Votable, LiveIsCurrent
<1> QED
  BY <1>8, <1>9, <1>10 DEF Votable

\* Every other answer leaves the grants and the counted votes alone.
LEMMA AnswerVotable ==
    ASSUME Inv, Votable, NEW b \in ballots, Answer(b)
    PROVE  Votable'
<1>1. ballots' = ballots \ {b} /\ led' = led /\ b.from \in Nodes /\ b.to \in Nodes /\ b.epoch \in Epochs
  BY DEF Answer, Inv, TypeOK, Ballots
<1>2. CASE AnswerGranted(b)
  BY <1>1, <1>2, AnswerGrantedVotable
<1>3. CASE AnswerDecided(b) \/ AnswerAlive(b) \/ AnswerStarting(b) \/ AnswerBehind(b)
  <2>1. \A v \in Nodes : voter'[v].granted = voter[v].granted
    <3>1. CASE AnswerStarting(b)
      <4>1. voter' = [voter EXCEPT ![b.to] = Adopt(voter[b.to], b.epoch)]
        BY <3>1 DEF AnswerStarting
      <4>2. Adopt(voter[b.to], b.epoch).granted = voter[b.to].granted
        BY <1>1, AdoptKeeps DEF Inv, TypeOK
      <4> QED
        BY <1>1, <4>1, <4>2 DEF Inv, TypeOK
    <3>2. CASE AnswerDecided(b) \/ AnswerAlive(b) \/ AnswerBehind(b)
      BY <3>2 DEF AnswerDecided, AnswerAlive, AnswerBehind
    <3> QED
      BY <1>3, <3>1, <3>2
  <2>2. \A n \in Nodes :
          /\ round[n] # None <=> round'[n] # None
          /\ round[n] # None => round'[n].epoch = round[n].epoch /\ round'[n].granted = round[n].granted
    <3>1. CASE AnswerDecided(b)
      <4>1. PICK h \in BOOLEAN : Heard(b, h) /\ Noted(b, h, DecidedAt(voter[b.to], b.epoch))
        BY <3>1 DEF AnswerDecided
      <4>2. CASE ~h
        BY <4>1, <4>2 DEF Noted
      <4>3. CASE h
        <5> DEFINE r == round[b.from]
                   s == [r EXCEPT !.noted = Larger(@, DecidedAt(voter[b.to], b.epoch))]
        <5>1. r \in Rounds
          BY <1>1, <4>1, <4>3 DEF Inv, TypeOK, BallotsOut, Heard
        <5>2. DecidedAt(voter[b.to], b.epoch) \in Epochs
          BY <1>1, <3>1, DecidedType DEF AnswerDecided, Inv, TypeOK
        <5>3. s \in Rounds
          BY <5>1, <5>2 DEF Rounds, Larger
        <5>4. s # None /\ r # None /\ s.epoch = r.epoch /\ s.granted = r.granted
          BY <5>1, <5>3, NoneApart DEF Rounds
        <5>5. round' = [round EXCEPT ![b.from] = s]
          BY <4>1, <4>3 DEF Noted
        <5> HIDE DEF s
        <5>6. \A n \in Nodes : round'[n] = IF n = b.from THEN s ELSE round[n]
          BY <1>1, <5>5 DEF Inv, TypeOK
        <5> QED
          BY <5>4, <5>6
      <4> QED
        BY <4>2, <4>3
    <3>2. CASE AnswerAlive(b) \/ AnswerStarting(b) \/ AnswerBehind(b)
      BY <3>2 DEF AnswerAlive, AnswerStarting, AnswerBehind
    <3> QED
      BY <1>3, <3>1, <3>2
  <2>3. SameRounds
    BY <2>2 DEF SameRounds
  <2>4. LiveIsCurrent'
    <3>1. \A d \in ballots : d.from \in Nodes
      BY DEF Inv, TypeOK, Ballots
    <3> QED
      BY <1>1, <2>2, <3>1 DEF Votable, LiveIsCurrent
  <2> QED
    BY <1>1, <2>1, <2>3, <2>4, QuietVotable
<1> QED
  BY <1>2, <1>3 DEF Answer

\* A round that is lost gave no vote of its candidate's own.
LEMMA LostGivesNothing ==
    ASSUME Inv, NEW n \in Nodes, NEW own \in OwnVotes, round[n] \in Rounds,
           OwnVote(n, own), Lost(n, own)
    PROVE  own # "granted"
<1> SUFFICES ASSUME own = "granted" PROVE FALSE
  OBVIOUS
<1>1. n \notin round[n].granted /\ round[n].epoch \in Epochs
  BY NoneApart DEF Inv, RoundBounded, Rounds
<1>2. Cardinality(Votes(n, own)) >= Majority
  BY <1>1, OwnVoteCarries
<1>3. Voted(n, own).granted.epoch = round[n].epoch
  BY VotedKeeps DEF Inv
<1>4. ~Promised(Voted(n, own), round[n].epoch)
  <2>1. round[n].epoch \in Int
    BY <1>1, EpochsAreInts
  <2> QED
    BY <1>3, <2>1 DEF Promised
<1>5. Cardinality(Votes(n, own)) \in Int /\ Majority \in Int
  <2>1. Votes(n, own) \subseteq Nodes
    BY DEF Votes, Rounds
  <2>2. IsFiniteSet(Votes(n, own)) /\ IsFiniteSet(Nodes)
    BY <2>1, Parameters, FS_Subset
  <2> QED
    BY <2>2, FS_CardinalityType DEF Majority
<1>6. Cardinality(Votes(n, own)) < Majority \/ Promised(Voted(n, own), round[n].epoch)
  BY DEF Lost
<1> QED
  BY <1>2, <1>4, <1>5, <1>6

\* A win is a majority of the votes given, or repeats a win.
LEMMA WonAgrees ==
    ASSUME Inv, NEW V \in Histories, Agrees(V), NEW n \in Nodes, NEW own \in OwnVotes,
           round[n] \in Rounds, OwnVote(n, own), Won(n, own),
           round' = [round EXCEPT ![n] = None]
    PROVE  \E W \in Histories : Agrees(W)'
<1>0. PICK e \in Epochs : e = round[n].epoch
  BY DEF Rounds
<1>1. e \in Epochs /\ round[n] # None /\ TypeOK /\ round[n].granted \subseteq Nodes /\ round[n].opened \in Int
  BY NoneApart DEF Inv, Rounds
<1>2. /\ voter'[n].granted # None
      /\ voter'[n].granted.epoch = e /\ voter'[n].granted.candidate = n
      /\ \A u \in Nodes \ {n} : voter'[u].granted = voter[u].granted
  <2> DEFINE x == Voted(n, own)
             y == Grant(x, e, n, round[n].opened)
  <2>1. x \in Voters
    BY <1>1, VotedKeeps
  <2> HIDE DEF x
  <2>2. /\ y.granted = [epoch |-> e, candidate |-> n, at |-> round[n].opened, hold |-> x.hold]
        /\ y.granted # None
    BY <1>1, <2>1, GrantWrites
  <2>3. voter' = [voter EXCEPT ![n] = y]
    BY <1>0 DEF Won, Carried, x
  <2> HIDE DEF y
  <2> QED
    BY <1>1, <2>2, <2>3 DEF TypeOK
<1>3. led' = led \cup {<<e, n>>} /\ Cardinality(Votes(n, own)) >= Majority
      /\ ~Promised(Voted(n, own), e)
  BY <1>0 DEF Won
<1>4. \A m \in Nodes : round'[m] = IF m = n THEN None ELSE round[m]
  BY <1>1 DEF TypeOK
<1>5. /\ voter[n].granted # None => voter[n].granted.epoch <= e
      /\ own = "granted" => V[n][e] \in {None, n} \/ <<e, n>> \in led
  <2>1. CASE own = "granted"
    <3>1. ~Decided(voter[n], e, n)
      BY <1>0, <2>1 DEF OwnVote, MayGrant
    <3>2. NoneAbove(V) /\ NewestAgrees(V)
      BY DEF Agrees
    <3> QED
      BY <1>1, <3>1, <3>2, Undecided
  <2>2. CASE own # "granted"
    <3>1. Voted(n, own).granted = voter[n].granted
      BY <1>1, <2>2, VotedKeeps
    <3>2. voter[n].granted # None => voter[n].granted.epoch \in Int
      BY EpochsAreInts, <1>1 DEF TypeOK, Voters, Grants
    <3>3. voter[n].granted # None => ~(voter[n].granted.epoch > e)
      BY <1>3, <3>1 DEF Promised
    <3>4. e \in Int
      BY <1>1, EpochsAreInts
    <3> QED
      BY <2>2, <3>2, <3>3, <3>4
  <2> QED
    BY <2>1, <2>2
<1>6. \A v \in round[n].granted : V[v][e] = n
  BY <1>0, <1>1 DEF Agrees, RoundsAgree
<1>7. CASE own = "granted" /\ V[n][e] \in {None, n}
  <2> DEFINE W == Cast(V, n, e, n)
  <2>1. W \in Histories /\ \A u \in Nodes, d \in Epochs : W[u][d] = IF u = n /\ d = e THEN n ELSE V[u][d]
    BY <1>1, CastIs
  <2>2. Supported(W, e, n)
    <3>1. Votes(n, own) = round[n].granted \cup {n}
      BY <1>7 DEF Votes
    <3>2. \A v \in Votes(n, own) : W[v][e] = n
      BY <1>1, <1>6, <2>1, <3>1
    <3>3. Votes(n, own) \in SUBSET Nodes
      BY <1>1, <3>1
    <3> HIDE DEF W
    <3> QED
      BY <1>3, <3>2, <3>3 DEF Supported
  <2>3. \A d \in Epochs, m \in Nodes : <<d, m>> \in led' => <<d, m>> \in led \/ Supported(W, d, m)
    BY <1>3, <2>2
  <2>4. \A m \in Nodes : round'[m] # None =>
           /\ round[m] # None /\ round'[m].epoch = round[m].epoch
           /\ \/ round'[m].granted = round[m].granted
              \/ m = n /\ round[m].epoch = e /\ round'[m].granted = round[m].granted \cup {n}
    BY <1>4
  <2>5. led \subseteq led'
    BY <1>3
  <2>6. Agrees(W)'
    BY <1>1, <1>2, <1>5, <1>7, <2>3, <2>4, <2>5, CastAgrees
  <2> QED
    BY <2>1, <2>6
<1>8. CASE own # "granted" \/ <<e, n>> \in led
  <2>1. NoneAbove(V)'
    <3> SUFFICES ASSUME NEW u \in Nodes, NEW d \in Epochs, V[u][d] # None
                 PROVE  voter'[u].granted # None /\ d <= voter'[u].granted.epoch
      BY DEF NoneAbove
    <3>1. voter[u].granted # None /\ d <= voter[u].granted.epoch
      BY DEF Agrees, NoneAbove
    <3>2. voter[u].granted.epoch \in Int /\ d \in Int /\ e \in Int
      BY <1>1, <3>1, EpochsAreInts DEF TypeOK, Voters, Grants
    <3>3. CASE u = n
      BY <1>2, <1>5, <3>1, <3>2, <3>3
    <3> QED
      BY <1>2, <3>1, <3>3
  <2>2. NewestAgrees(V)'
    <3>1. <<e, n>> \in led' /\ led \subseteq led'
      BY <1>3
    <3> QED
      BY <1>2, <3>1 DEF Agrees, NewestAgrees
  <2>3. RoundsAgree(V)'
    BY <1>4 DEF Agrees, RoundsAgree
  <2>4. Supported(V, e, n)
    <3>1. CASE <<e, n>> \in led
      BY <1>1, <3>1 DEF Agrees, LedAgrees
    <3>2. CASE own # "granted"
      <4>1. Votes(n, own) = round[n].granted
        BY <3>2 DEF Votes
      <4> QED
        BY <1>1, <1>3, <1>6, <4>1 DEF Supported
    <3> QED
      BY <1>8, <3>1, <3>2
  <2>5. LedAgrees(V)'
    <3> SUFFICES ASSUME NEW d \in Epochs, NEW m \in Nodes, <<d, m>> \in led'
                 PROVE  Supported(V, d, m)
      BY DEF LedAgrees, Supported
    <3> QED
      BY <1>3, <2>4 DEF Agrees, LedAgrees
  <2>6. Agrees(V)'
    BY <2>1, <2>2, <2>3, <2>5 DEF Agrees
  <2> QED
    BY <2>6
<1> QED
  BY <1>5, <1>7, <1>8

LEMMA CloseVotable ==
    ASSUME Inv, Votable, NEW n \in Nodes, Close(n)
    PROVE  Votable'
<1>1. round[n] \in Rounds /\ round' = [round EXCEPT ![n] = None] /\ ballots' \in Unheard(n)
  BY DEF Close, Inv, TypeOK
<1>2. PICK own \in OwnVotes : OwnVote(n, own) /\ (Won(n, own) \/ Lost(n, own))
  BY DEF Close
<1>3. \A m \in Nodes : round'[m] = IF m = n THEN None ELSE round[m]
  BY <1>1 DEF Inv, TypeOK
<1>4. LiveIsCurrent'
  <2>1. \A b \in ballots' : b.live => b \in ballots /\ b.from # n /\ b.from \in Nodes
    <3>1. \A b \in ballots' : b \in Ballots /\ (b.live => b \in ballots /\ b.from # n)
      BY <1>1, UnheardShape DEF Inv
    <3> QED
      BY <3>1 DEF Ballots
  <2> QED
    BY <1>3, <2>1 DEF Votable, LiveIsCurrent
<1>5. CASE Won(n, own)
  <2>1. PICK V \in Histories : Agrees(V)
    BY DEF Votable
  <2>2. \E W \in Histories : Agrees(W)'
    BY <1>1, <1>2, <1>5, <2>1, WonAgrees
  <2> QED
    BY <1>4, <2>2 DEF Votable
<1>6. CASE Lost(n, own)
  <2>1. own # "granted"
    BY <1>1, <1>2, <1>6, LostGivesNothing
  <2>2. Voted(n, own).granted = voter[n].granted
    BY <1>1, <2>1, VotedKeeps DEF Inv
  <2>3. voter' = [voter EXCEPT ![n] = Voted(n, own)] /\ led' = led
    BY <1>6 DEF Lost
  <2>4. \A v \in Nodes : voter'[v].granted = voter[v].granted
    BY <2>2, <2>3 DEF Inv, TypeOK
  <2>5. SameRounds
    BY <1>3 DEF SameRounds
  <2> QED
    BY <1>4, <2>3, <2>4, <2>5, QuietVotable
<1> QED
  BY <1>2, <1>5, <1>6

LEMMA NextVotable ==
    ASSUME Inv, Votable, Restarting = {}, [Next]_vars
    PROVE  Votable'
<1>1. CASE Tick
  BY <1>1, AsideVotable DEF Tick
<1>2. CASE \E b \in ballots : Answer(b)
  BY <1>2, AnswerVotable
<1>3. ASSUME NEW n \in Nodes, Pass(n) \/ Open(n) \/ Close(n) PROVE Votable'
  BY <1>3, PassVotable, OpenVotable, CloseVotable
<1>4. ASSUME NEW n \in Nodes, Name(n) \/ Admit(n) \/ Land(n) \/ RefuseFenced(n) PROVE Votable'
  BY <1>4, AsideVotable DEF Name, Admit, Land, RefuseFenced
<1>5. ASSUME NEW n \in Nodes, NEW m \in Nodes, Collect(n, m) PROVE Votable'
  BY <1>5, AsideVotable DEF Collect
<1>6. ASSUME NEW n \in Nodes, NEW d \in Policies, Install(n, d) PROVE Votable'
  BY <1>6, AsideVotable DEF Install
<1>7. ASSUME NEW n \in Nodes, Restart(n) PROVE Votable'
  BY <1>7 DEF Restart
<1>8. CASE UNCHANGED vars
  BY <1>8, AsideVotable DEF vars
<1> QED
  BY <1>1, <1>2, <1>3, <1>4, <1>5, <1>6, <1>7, <1>8 DEF Next

-----------------------------------------------------------------------------
LEMMA VotableIsSingle ==
    ASSUME Inv, Votable PROVE OneLeaderPerEpoch
<1> SUFFICES ASSUME NEW p \in led, NEW q \in led, p[1] = q[1] PROVE p[2] = q[2]
  BY DEF OneLeaderPerEpoch
<1>1. PICK V \in Histories : Agrees(V)
  BY DEF Votable
<1>2. p \in Epochs \X Nodes /\ q \in Epochs \X Nodes
  BY DEF Inv, TypeOK
<1>3. PICK e \in Epochs, m \in Nodes, n \in Nodes : p = <<e, m>> /\ q = <<e, n>>
  BY <1>2
<1>4. PICK P \in SUBSET Nodes : Cardinality(P) >= Majority /\ \A v \in P : V[v][e] = m
  BY <1>1, <1>3 DEF Agrees, LedAgrees, Supported
<1>5. PICK Q \in SUBSET Nodes : Cardinality(Q) >= Majority /\ \A v \in Q : V[v][e] = n
  BY <1>1, <1>3 DEF Agrees, LedAgrees, Supported
<1>6. Cardinality(P) + Cardinality(Q) > Cardinality(Nodes)
  <2>1. IsFiniteSet(P) /\ IsFiniteSet(Q) /\ IsFiniteSet(Nodes)
    BY Parameters, FS_Subset
  <2>2. Cardinality(P) \in Nat /\ Cardinality(Q) \in Nat /\ Cardinality(Nodes) \in Nat
    BY <2>1, FS_CardinalityType
  <2> QED
    BY <1>4, <1>5, <2>2 DEF Majority
<1>7. P \cap Q # {}
  BY <1>6, Parameters, FS_MajoritiesIntersect
<1> QED
  BY <1>3, <1>4, <1>5, <1>7

\* As long as no voter forgets its grants by starting again, an epoch is won by one
\* node, whatever is lost or late, however clocks drift and policies change, and
\* although a win may overwrite a grant to somebody else (Voter::asked, Voter::carried).
THEOREM EpochWonOnce == Spec => [](Restarting = {} => OneLeaderPerEpoch)
<1> DEFINE I == Inv /\ (Restarting = {} => Votable)
<1>1. Init => I
  BY InitInv, InitVotable
<1>2. I /\ [Next]_vars => I'
  BY NextInv, NextVotable
<1>3. I => (Restarting = {} => OneLeaderPerEpoch)
  BY VotableIsSingle
<1> QED
  BY <1>1, <1>2, <1>3, PTL DEF Spec

-----------------------------------------------------------------------------
(* Authors.                                                                *)

\* What a node stands on, states, has stamped or written, it won.
WellAuthored ==
    \A n \in Nodes :
        /\ standing[n].epoch # 0 => <<standing[n].epoch, n>> \in led
        /\ leading[n] # 0 => <<leading[n], n>> \in led
        /\ commit[n] \notin {None, 0} => <<commit[n], n>> \in led
        /\ \A i \in 1 .. Len(log[n]) : <<log[n][i].epoch, log[n][i].by>> \in led

LEMMA AppendIs ==
    ASSUME NEW S, NEW s \in Seq(S), NEW r \in S
    PROVE  /\ Append(s, r) \in Seq(S) /\ Len(Append(s, r)) = Len(s) + 1 /\ Len(s) \in Nat
           /\ \A i \in 1 .. Len(s) : Append(s, r)[i] = s[i]
           /\ Append(s, r)[Len(s) + 1] = r
OBVIOUS

LEMMA InitAuthored == Init => WellAuthored
<1> SUFFICES ASSUME Init PROVE WellAuthored
  OBVIOUS
<1>1. \A n \in Nodes : standing[n].epoch = 0 /\ leading[n] = 0 /\ commit[n] = None /\ Len(log[n]) = 0
  BY DEF Init, Spent
<1> QED
  BY <1>1 DEF WellAuthored

\* Steps that write no record.
LEMMA UnwrittenAuthored ==
    ASSUME WellAuthored, led \subseteq led', log' = log,
           \A n \in Nodes :
              /\ standing'[n].epoch \in {0, standing[n].epoch} \/ <<standing'[n].epoch, n>> \in led'
              /\ leading'[n] \in {0, leading[n], standing[n].epoch}
              /\ commit'[n] \in {None, commit[n], leading[n]}
    PROVE  WellAuthored'
BY DEF WellAuthored

LEMMA AppendAuthored ==
    ASSUME TypeOK, WellAuthored, NEW n \in Nodes, NEW r \in Records,
           <<r.epoch, r.by>> \in led, log' = [log EXCEPT ![n] = Append(@, r)],
           UNCHANGED <<standing, leading, led>>,
           \A m \in Nodes : commit'[m] \in {None, commit[m]}
    PROVE  WellAuthored'
<1>1. log[n] \in Seq(Records)
  BY DEF TypeOK
<1>2. \A m \in Nodes : log'[m] = IF m = n THEN Append(log[n], r) ELSE log[m]
  BY DEF TypeOK
<1>3. \A i \in 1 .. Len(Append(log[n], r)) :
        <<Append(log[n], r)[i].epoch, Append(log[n], r)[i].by>> \in led
  <2> SUFFICES ASSUME NEW i \in 1 .. Len(Append(log[n], r))
               PROVE  <<Append(log[n], r)[i].epoch, Append(log[n], r)[i].by>> \in led
    OBVIOUS
  <2>1. i \in 1 .. Len(log[n]) \/ i = Len(log[n]) + 1
    BY <1>1, AppendIs
  <2>2. CASE i \in 1 .. Len(log[n])
    <3>1. Append(log[n], r)[i] = log[n][i]
      BY <1>1, <2>2, AppendIs
    <3>2. <<log[n][i].epoch, log[n][i].by>> \in led
      BY <2>2 DEF WellAuthored
    <3> QED
      BY <3>1, <3>2
  <2>3. CASE i = Len(log[n]) + 1
    BY <1>1, <2>3, AppendIs, SMTT(30)
  <2> QED
    BY <2>1, <2>2, <2>3
<1>4. \A m \in Nodes : \A i \in 1 .. Len(log'[m]) : <<log'[m][i].epoch, log'[m][i].by>> \in led
  <2> SUFFICES ASSUME NEW m \in Nodes, NEW i \in 1 .. Len(log'[m])
               PROVE  <<log'[m][i].epoch, log'[m][i].by>> \in led
    OBVIOUS
  <2>1. CASE m = n
    <3>1. log'[m] = Append(log[n], r)
      BY <1>2, <2>1
    <3> QED
      BY <1>3, <3>1
  <2>2. CASE m # n
    <3>1. log'[m] = log[m]
      BY <1>2, <2>2
    <3> QED
      BY <3>1 DEF WellAuthored
  <2> QED
    BY <2>1, <2>2
<1>5. \A m \in Nodes : /\ standing[m].epoch # 0 => <<standing[m].epoch, m>> \in led
                       /\ leading[m] # 0 => <<leading[m], m>> \in led
                       /\ commit'[m] \notin {None, 0} => <<commit'[m], m>> \in led
  BY DEF WellAuthored
<1> QED
  BY <1>4, <1>5 DEF WellAuthored

LEMMA NextAuthored ==
    ASSUME Inv, WellAuthored, [Next]_vars
    PROVE  WellAuthored'
<1>1. CASE Tick \/ \E b \in ballots : Answer(b)
  BY <1>1, UnwrittenAuthored DEF Tick, Answer, cursor, store
<1>2. ASSUME NEW n \in Nodes, Pass(n) \/ Open(n) PROVE WellAuthored'
  BY <1>2, UnwrittenAuthored DEF Pass, Open, cursor, store
<1>3. ASSUME NEW n \in Nodes, Close(n) PROVE WellAuthored'
  <2>1. PICK own \in OwnVotes : Won(n, own) \/ Lost(n, own)
    BY <1>3 DEF Close
  <2>2. log' = log /\ leading' = leading /\ commit' = commit
    BY <1>3 DEF Close
  <2>3. CASE Won(n, own)
    <3> DEFINE won == [epoch |-> round[n].epoch, from |-> round[n].opened, length |-> Length(n, own)]
    <3>1. standing' = [standing EXCEPT ![n] = won] /\ led' = led \cup {<<round[n].epoch, n>>}
      BY <2>3 DEF Won
    <3>2. \A m \in Nodes : standing'[m] = IF m = n THEN won ELSE standing[m]
      BY <3>1 DEF Inv, TypeOK
    <3>3. won.epoch = round[n].epoch
      OBVIOUS
    <3> HIDE DEF won
    <3> QED
      BY <2>2, <3>1, <3>2, <3>3, UnwrittenAuthored
  <2>4. CASE Lost(n, own)
    BY <2>2, <2>4, UnwrittenAuthored DEF Lost
  <2> QED
    BY <2>1, <2>3, <2>4
<1>4. ASSUME NEW n \in Nodes, Name(n) PROVE WellAuthored'
  <2>1. \A m \in Nodes : leading'[m] \in {leading[m], standing[m].epoch}
    BY <1>4 DEF Name, Inv, TypeOK
  <2> QED
    BY <1>4, <2>1, UnwrittenAuthored DEF Name, cursor
<1>5. ASSUME NEW n \in Nodes, Admit(n) \/ RefuseFenced(n) PROVE WellAuthored'
  <2>1. \A m \in Nodes : commit'[m] \in {None, commit[m], leading[m]}
    BY <1>5 DEF Admit, RefuseFenced, Inv, TypeOK
  <2> QED
    BY <1>5, <2>1, UnwrittenAuthored DEF Admit, RefuseFenced, cursor
<1>6. ASSUME NEW n \in Nodes, Land(n) PROVE WellAuthored'
  <2>1. \A m \in Nodes : commit'[m] \in {None, commit[m]}
    BY <1>6 DEF Land, Inv, TypeOK
  <2>2. CASE commit[n] = 0
    BY <1>6, <2>1, <2>2, UnwrittenAuthored DEF Land, cursor
  <2>3. CASE commit[n] # 0
    <3> DEFINE r == [epoch |-> commit[n], by |-> n]
    <3>1. commit[n] \in Epochs /\ <<commit[n], n>> \in led
      BY <1>6, <2>3 DEF Land, Inv, TypeOK, WellAuthored
    <3>2. r \in Records /\ <<r.epoch, r.by>> \in led
      BY <3>1 DEF Records
    <3>3. log' = [log EXCEPT ![n] = Append(@, r)]
      BY <1>6, <2>3 DEF Land
    <3>4. UNCHANGED <<standing, leading, led>> /\ TypeOK
      BY <1>6 DEF Land, cursor, Inv
    <3> HIDE DEF r
    <3> QED
      BY <2>1, <3>2, <3>3, <3>4, AppendAuthored
  <2> QED
    BY <2>2, <2>3
<1>7. ASSUME NEW n \in Nodes, NEW m \in Nodes, Collect(n, m) PROVE WellAuthored'
  <2> DEFINE r == log[m][Len(log[n]) + 1]
  <2>1. log[n] \in Seq(Records) /\ log[m] \in Seq(Records) /\ Len(log[n]) + 1 \in 1 .. Len(log[m])
    BY <1>7 DEF Collect, Inv, TypeOK
  <2>2. r \in Records
    BY <2>1
  <2>3. \A i \in 1 .. Len(log[m]) : <<log[m][i].epoch, log[m][i].by>> \in led
    BY DEF WellAuthored
  <2>4. <<r.epoch, r.by>> \in led
    BY <2>1, <2>3
  <2>5. log' = [log EXCEPT ![n] = Append(@, r)] /\ UNCHANGED <<standing, leading, commit, led>> /\ TypeOK
    BY <1>7 DEF Collect, cursor, Inv
  <2>6. \A k \in Nodes : commit'[k] \in {None, commit[k]}
    BY <2>5
  <2> HIDE DEF r
  <2> QED
    BY <2>2, <2>4, <2>5, <2>6, AppendAuthored
<1>8. ASSUME NEW n \in Nodes, Restart(n) PROVE WellAuthored'
  <2>1. \A m \in Nodes : /\ standing'[m].epoch \in {0, standing[m].epoch}
                         /\ leading'[m] \in {0, leading[m]} /\ commit'[m] \in {None, commit[m]}
    BY <1>8 DEF Restart, Spent, Inv, TypeOK
  <2> QED
    BY <1>8, <2>1, UnwrittenAuthored DEF Restart
<1>9. ASSUME NEW n \in Nodes, NEW d \in Policies, Install(n, d) PROVE WellAuthored'
  BY <1>9, UnwrittenAuthored DEF Install, cursor, store
<1>10. CASE UNCHANGED vars
  BY <1>10, UnwrittenAuthored DEF vars
<1> QED
  BY <1>1, <1>2, <1>3, <1>4, <1>5, <1>6, <1>7, <1>8, <1>9, <1>10 DEF Next

LEMMA AuthorsSingle ==
    ASSUME WellAuthored, OneLeaderPerEpoch PROVE EpochHasOneAuthor
<1> SUFFICES ASSUME NEW m \in Nodes, NEW n \in Nodes, NEW i \in 1 .. Len(log[m]), NEW j \in 1 .. Len(log[n]),
                    log[m][i].epoch = log[n][j].epoch
             PROVE  log[m][i].by = log[n][j].by
  BY DEF EpochHasOneAuthor
<1>1. <<log[m][i].epoch, log[m][i].by>> \in led /\ <<log[n][j].epoch, log[n][j].by>> \in led
  BY DEF WellAuthored
<1> QED
  BY <1>1 DEF OneLeaderPerEpoch

\* As long as no voter starts again, the records of one leadership, in whatever copy,
\* were written by one node: a commit is stamped with an epoch its node won, and that
\* stamp is what is filed, even once a later epoch is in force (settle.rs).
THEOREM EpochsHaveOneAuthor == Spec => [](Restarting = {} => EpochHasOneAuthor)
<1> DEFINE I == Inv /\ WellAuthored /\ (Restarting = {} => Votable)
<1>1. Init => I
  BY InitInv, InitAuthored, InitVotable
<1>2. I /\ [Next]_vars => I'
  BY NextInv, NextAuthored, NextVotable
<1>3. I => (Restarting = {} => EpochHasOneAuthor)
  BY VotableIsSingle, AuthorsSingle
<1> QED
  BY <1>1, <1>2, <1>3, PTL DEF Spec

-----------------------------------------------------------------------------
(* Copies.  Only the record before the one appended is ever compared; what *)
(* makes that enough is that every record's author still holds it, at the  *)
(* same position and after the same history.                               *)

\* The logs s and t hold the same records up to position i.
SameUpTo(s, t, i) == i <= Len(s) /\ i <= Len(t) /\ \A j \in 1 .. i : s[j] = t[j]

FromAuthor == \A m \in Nodes : \A i \in 1 .. Len(log[m]) : SameUpTo(log[m], log[log[m][i].by], i)

LEMMA AppendKeeps ==
    ASSUME NEW S, NEW s \in Seq(S), NEW t \in Seq(S), NEW r \in S, NEW i \in Nat, SameUpTo(s, t, i)
    PROVE  SameUpTo(Append(s, r), t, i) /\ SameUpTo(s, Append(t, r), i)
           /\ SameUpTo(Append(s, r), Append(s, r), i)
BY AppendIs DEF SameUpTo

\* A record is appended after a history its author shares, by the author or by a copy.
LEMMA AppendFromAuthor ==
    ASSUME TypeOK, FromAuthor, NEW n \in Nodes, NEW r \in Records,
           log' = [log EXCEPT ![n] = Append(@, r)],
           \/ r.by = n
           \/ /\ r.by # n /\ SameUpTo(log[n], log[r.by], Len(log[n]))
              /\ Len(log[n]) + 1 <= Len(log[r.by]) /\ log[r.by][Len(log[n]) + 1] = r
    PROVE  FromAuthor'
<1>1. \A m \in Nodes : log'[m] = IF m = n THEN Append(log[n], r) ELSE log[m]
  BY DEF TypeOK
<1>2. \A m \in Nodes : log[m] \in Seq(Records) /\ Len(log[m]) \in Nat
  BY DEF TypeOK
<1> SUFFICES ASSUME NEW m \in Nodes, NEW i \in 1 .. Len(log'[m])
             PROVE  SameUpTo(log'[m], log'[log'[m][i].by], i)
  BY DEF FromAuthor
<1>3. CASE i \in 1 .. Len(log[m])
  <2>1. log'[m][i] = log[m][i] /\ log[m][i].by \in Nodes /\ i \in Nat
    <3>1. log[m][i] \in Records /\ i \in Nat
      BY <1>2, <1>3
    <3>2. log'[m][i] = log[m][i]
      BY <1>1, <1>2, <1>3, AppendIs
    <3> QED
      BY <3>1, <3>2 DEF Records
  <2>2. PICK a \in Nodes : a = log[m][i].by
    BY <2>1
  <2>3. SameUpTo(log[m], log[a], i)
    BY <1>3, <2>2 DEF FromAuthor
  <2>4. SameUpTo(log'[m], log'[a], i)
    <3>1. CASE m = n /\ a = n
      BY <1>1, <1>2, <2>1, <2>3, <3>1, AppendKeeps
    <3>2. CASE m = n /\ a # n
      BY <1>1, <1>2, <2>1, <2>3, <3>2, AppendKeeps
    <3>3. CASE m # n /\ a = n
      BY <1>1, <1>2, <2>1, <2>3, <3>3, AppendKeeps
    <3>4. CASE m # n /\ a # n
      BY <1>1, <2>3, <3>4
    <3> QED
      BY <3>1, <3>2, <3>3, <3>4
  <2> QED
    BY <2>1, <2>2, <2>4
<1>4. CASE i \notin 1 .. Len(log[m])
  <2>1. m = n /\ log'[n] = Append(log[n], r)
    BY <1>1, <1>4
  <2>2. i = Len(log[n]) + 1 /\ log'[m][i] = r /\ Len(log'[n]) = Len(log[n]) + 1
    BY <1>2, <1>4, <2>1, AppendIs
  <2>3. CASE r.by = n
    BY <1>2, <2>1, <2>2, <2>3 DEF SameUpTo
  <2>4. CASE r.by # n
    <3>1. r.by \in Nodes
      BY DEF Records
    <3>2. log'[r.by] = log[r.by]
      BY <1>1, <2>4, <3>1
    <3>3. \A j \in 1 .. i : j \in 1 .. Len(log[n]) \/ j = i
      BY <1>2, <2>2
    <3>4. \A j \in 1 .. Len(log[n]) : Append(log[n], r)[j] = log[r.by][j]
      BY <1>2, <2>4, AppendIs DEF SameUpTo
    <3>5. Append(log[n], r)[i] = log[r.by][i]
      BY <1>2, <2>1, <2>2, <2>4
    <3>6. \A j \in 1 .. i : Append(log[n], r)[j] = log[r.by][j]
      BY <3>3, <3>4, <3>5
    <3>7. i <= Len(log'[n]) /\ i <= Len(log[r.by])
      BY <1>2, <2>2, <2>4, <3>1
    <3> QED
      BY <2>1, <2>2, <3>2, <3>6, <3>7 DEF SameUpTo
  <2> QED
    BY <2>3, <2>4
<1> QED
  BY <1>3, <1>4

\* Two copies that hold a record of one leadership at one position share its author's
\* history up to it.
LEMMA SharedHistory ==
    ASSUME TypeOK, FromAuthor, EpochHasOneAuthor, NEW m \in Nodes, NEW n \in Nodes,
           NEW i \in Nat \ {0}, i <= Len(log[m]), i <= Len(log[n]), log[m][i].epoch = log[n][i].epoch
    PROVE  SameUpTo(log[n], log[m], i)
<1>1. Len(log[m]) \in Nat /\ Len(log[n]) \in Nat
  BY DEF TypeOK
<1>2. i \in 1 .. Len(log[m]) /\ i \in 1 .. Len(log[n])
  BY <1>1
<1>3. log[m][i].by = log[n][i].by
  BY <1>2 DEF EpochHasOneAuthor
<1>4. PICK a : a = log[m][i].by
  OBVIOUS
<1>5. SameUpTo(log[m], log[a], i) /\ SameUpTo(log[n], log[a], i)
  BY <1>2, <1>3, <1>4 DEF FromAuthor
<1> QED
  BY <1>5 DEF SameUpTo

LEMMA CollectFromAuthor ==
    ASSUME TypeOK, FromAuthor, EpochHasOneAuthor, NEW n \in Nodes, NEW m \in Nodes, Collect(n, m)
    PROVE  FromAuthor'
<1>1. PICK k \in Nat : k = Len(log[n])
  BY DEF TypeOK
<1>2. log[m] \in Seq(Records) /\ Len(log[m]) \in Nat /\ k + 1 \in 1 .. Len(log[m])
  BY <1>1 DEF TypeOK, Collect
<1>3. PICK r \in Records : r = log[m][k + 1]
  BY <1>2
<1>4. r.by \in Nodes
  BY DEF Records
<1>5. SameUpTo(log[m], log[r.by], k + 1)
  BY <1>2, <1>3 DEF FromAuthor
<1>6. k + 1 <= Len(log[r.by]) /\ log[r.by][k + 1] = r /\ r.by # n
  BY <1>1, <1>3, <1>5 DEF SameUpTo
<1>7. SameUpTo(log[n], log[r.by], k)
  <2>1. CASE k = 0
    BY <1>1, <1>6, <2>1 DEF SameUpTo
  <2>2. CASE k # 0
    <3>1. log[n] # <<>>
      BY <1>1, <2>2
    <3>2. log[m][k].epoch = log[n][k].epoch
      BY <1>1, <3>1 DEF Collect, NotParted, TailLeadership
    <3>3. SameUpTo(log[n], log[m], k)
      BY <1>1, <1>2, <2>2, <3>2, SharedHistory
    <3> QED
      BY <1>5, <3>3 DEF SameUpTo
  <2> QED
    BY <2>1, <2>2
<1>8. log' = [log EXCEPT ![n] = Append(@, r)]
  BY <1>1, <1>3 DEF Collect
<1> QED
  BY <1>1, <1>6, <1>7, <1>8, AppendFromAuthor

LEMMA NextFromAuthor ==
    ASSUME Inv, FromAuthor, EpochHasOneAuthor, [Next]_vars
    PROVE  FromAuthor'
<1>1. ASSUME log' = log PROVE FromAuthor'
  BY <1>1 DEF FromAuthor
<1>2. ASSUME NEW n \in Nodes, Land(n), log' # log PROVE FromAuthor'
  <2>1. PICK r \in Records : r.by = n /\ log' = [log EXCEPT ![n] = Append(@, r)]
    <3>1. commit[n] \in Epochs /\ commit[n] # 0
      BY <1>2 DEF Land, Inv, TypeOK
    <3>2. [epoch |-> commit[n], by |-> n] \in Records
      BY <3>1 DEF Records
    <3> QED
      BY <1>2, <3>1, <3>2 DEF Land
  <2> QED
    BY <2>1, AppendFromAuthor DEF Inv
<1>3. ASSUME NEW n \in Nodes, NEW m \in Nodes, Collect(n, m) PROVE FromAuthor'
  BY <1>3, CollectFromAuthor DEF Inv
<1>4. ASSUME NEW n \in Nodes, Close(n) \/ Restart(n) \/ Name(n) \/ Admit(n) \/ RefuseFenced(n)
      PROVE  log' = log
  BY <1>4 DEF Close, Restart, Name, Admit, RefuseFenced
<1>5. ASSUME NEW n \in Nodes, Pass(n) \/ Open(n) \/ \E d \in Policies : Install(n, d) PROVE log' = log
  BY <1>5 DEF Pass, Open, Install, store
<1>6. CASE Tick \/ \E b \in ballots : Answer(b)
  BY <1>1, <1>6 DEF Tick, Answer, store
<1>7. CASE UNCHANGED vars
  BY <1>1, <1>7 DEF vars
<1> QED
  BY <1>1, <1>2, <1>3, <1>4, <1>5, <1>6, <1>7 DEF Next

LEMMA InitFromAuthor == Init => FromAuthor
BY DEF Init, FromAuthor

LEMMA MatchingCopies == ASSUME TypeOK, FromAuthor, EpochHasOneAuthor PROVE LogsMatch
<1> SUFFICES ASSUME NEW m \in Nodes, NEW n \in Nodes, NEW i \in 1 .. Smaller(Len(log[m]), Len(log[n])),
                    log[m][i].epoch = log[n][i].epoch
             PROVE  SubSeq(log[m], 1, i) = SubSeq(log[n], 1, i)
  BY DEF LogsMatch
<1>1. log[m] \in Seq(Records) /\ log[n] \in Seq(Records) /\ Len(log[m]) \in Nat /\ Len(log[n]) \in Nat
  BY DEF TypeOK
<1>2. i \in Nat \ {0} /\ i <= Len(log[m]) /\ i <= Len(log[n])
  BY <1>1 DEF Smaller
<1>3. \A j \in 1 .. i : log[m][j] = log[n][j]
  BY <1>2, SharedHistory DEF SameUpTo
<1>4. PICK s \in Seq(Records) : s = SubSeq(log[m], 1, i)
  <2>1. \A j \in 1 .. i : log[m][j] \in Records
    BY <1>1, <1>2
  <2>2. SubSeq(log[m], 1, i) \in Seq(Records)
    BY <1>2, <2>1, SubSeqProperties
  <2> QED
    BY <2>2
<1>5. PICK t \in Seq(Records) : t = SubSeq(log[n], 1, i)
  <2>1. \A j \in 1 .. i : log[n][j] \in Records
    BY <1>1, <1>2
  <2>2. SubSeq(log[n], 1, i) \in Seq(Records)
    BY <1>2, <2>1, SubSeqProperties
  <2> QED
    BY <2>2
<1>6. Len(s) = i /\ \A j \in 1 .. i : s[j] = log[m][j]
  BY <1>1, <1>2, <1>4
<1>7. Len(t) = i /\ \A j \in 1 .. i : t[j] = log[n][j]
  BY <1>1, <1>2, <1>5
<1>8. s = t
  BY <1>3, <1>6, <1>7, SeqEqual
<1> QED
  BY <1>4, <1>5, <1>8

\* As long as no voter starts again, two copies that hold a record of one leadership at
\* one position hold the same history up to it: comparing the one record before the
\* appended one is enough (apply.rs, refuse_a_parted_history).
THEOREM CopiesMatch == Spec => [](Restarting = {} => LogsMatch)
<1> DEFINE I == Inv /\ WellAuthored /\ (Restarting = {} => Votable /\ FromAuthor)
<1>1. Init => I
  BY InitInv, InitAuthored, InitVotable, InitFromAuthor
<1>2. I /\ [Next]_vars => I'
  <2>1. I /\ Restarting = {} => EpochHasOneAuthor
    BY VotableIsSingle, AuthorsSingle
  <2> QED
    BY <2>1, NextInv, NextAuthored, NextVotable, NextFromAuthor
<1>3. I => (Restarting = {} => LogsMatch)
  BY VotableIsSingle, AuthorsSingle, MatchingCopies DEF Inv
<1> QED
  BY <1>1, <1>2, <1>3, PTL DEF Spec

=============================================================================
