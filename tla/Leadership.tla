----------------------------- MODULE Leadership -----------------------------
(***************************************************************************)
(* Who may write: the store line's elections and leases (tessari-wire:     *)
(* grant.rs, grant/voter.rs, grant/round.rs, campaign.rs, driver/          *)
(* leadership/renewing.rs; tessari-cli: leadership_round.rs; tessari-      *)
(* storage: lease.rs, store/leases.rs, transaction/commit/settle.rs).      *)
(*                                                                         *)
(* A candidate dates a round from before it asks, puts one ballot to every *)
(* peer, casts its own vote last, and on a majority holds a lease that is  *)
(* dated from the opening and no longer than the shortest hold granted.    *)
(* It stops writing Guard before that lease ends.  Nothing a voter granted *)
(* is written down: a restarted one sits out a lease instead.              *)
(*                                                                         *)
(* `now' is real time.  Nodes never compare clocks, they measure spans:    *)
(* each may find a span over up to Drift early or late.  Cadence, stagger, *)
(* spread and greetings only decide when a node stands, so here it stands  *)
(* whenever nothing forbids it.  A canvass is bounded step by step, each   *)
(* by the round, and its name lookup by nothing: MaxCanvass bounds it.     *)
(***************************************************************************)
EXTENDS Integers, Sequences, FiniteSets

CONSTANTS
    Nodes,          \* the voting members
    Candidates,     \* the members that stand
    Reaches,        \* [Nodes -> SUBSET Nodes]: the doors a node's ballots get through to
    TTL,            \* LEASE_TTL, the build's lease
    Guard,          \* LEASE_GUARD
    RoundTime,      \* how long a round is expected to take (policy.round)
    MaxCanvass,     \* how long a canvass takes at most
    Drift,          \* how far two clocks part over a lease
    FirstPolicy,    \* the lease the failover policy states at the start
    Policies,       \* the leases an operator may install later
    Restarting,     \* the nodes that may crash and start again
    Losing,         \* whether the answer to a ballot may be lost
    MaxTime, MaxEpoch, MaxLog,  \* bounds
    MaxRestarts,    \* bound: restarts and installs
    MaxLate,        \* how many ballots may be on their way after their round is over
    None

ASSUME LeaseAssumption ==
    /\ Nodes # {} /\ IsFiniteSet(Nodes) /\ None \notin Nodes
    /\ Candidates \subseteq Nodes /\ Restarting \subseteq Nodes
    /\ Reaches \in [Nodes -> SUBSET Nodes]
    /\ {TTL, Guard, RoundTime, MaxCanvass, Drift, FirstPolicy, MaxTime, MaxEpoch, MaxLog, MaxRestarts, MaxLate}
          \subseteq Nat
    /\ Policies \subseteq Nat /\ Losing \in BOOLEAN
    /\ 2 * Drift <= Guard

VARIABLES
    now,                          \* real time, in ticks
    policy,                       \* each node's catalog: the lease the installed policy states
    voter,                        \* each node's Voter, in memory
    standing, stood, heard,       \* each node's Renewing cursor, in memory
    round,                        \* the round a node has open
    ballots,                      \* ballots on their way to a door
    lease, leading,               \* the store's fence and the epoch it writes under
    commit,                       \* the epoch an admitted commit was stamped with
    log,                          \* each node's copy of the line's log
    led,                          \* history: which epochs were won, and by whom
    restarts                      \* how many restarts and installs have happened

clock == <<now, restarts>>
cursor == <<standing, stood, heard>>
store == <<lease, leading, commit, log>>
vars == <<now, policy, voter, standing, stood, heard, round, ballots,
          lease, leading, commit, log, led, restarts>>

Larger(a, b) == IF a < b THEN b ELSE a
Smaller(a, b) == IF a < b THEN a ELSE b

\* Spans as a node measures them, never below zero: `d' after `since', at `t'.
MayBeOver(t, since, d) == t - since + Drift >= d
MayBeRunning(t, since, d) == 0 < d /\ t - since - Drift < d

Majority == (Cardinality(Nodes) \div 2) + 1

\* How far a node's log reaches: the leadership of its last record, and its length.
TailLeadership(n) == IF log[n] = <<>> THEN 0 ELSE log[n][Len(log[n])].epoch
Reached(n) == [leadership |-> TailLeadership(n), tail |-> Len(log[n])]
Behind(a, b) == a.leadership < b.leadership \/ (a.leadership = b.leadership /\ a.tail < b.tail)

\* The instant the holder stops writing, Guard before the lease ends.
Fence(l) == Larger(l.from, l.from + l.length - Guard)

Spent(t) == [epoch |-> 0, from |-> t - TTL, length |-> TTL]
Started(t) == [started |-> t, hold |-> TTL, granted |-> None, seen |-> 0]

Init ==
    /\ now = 0 /\ restarts = 0
    /\ policy = [n \in Nodes |-> FirstPolicy]
    /\ voter = [n \in Nodes |-> [Started(0 - Larger(FirstPolicy, TTL) - Drift) EXCEPT !.hold = FirstPolicy]]
    /\ standing = [n \in Nodes |-> Spent(0)]
    /\ stood = [n \in Nodes |-> 0] /\ heard = [n \in Nodes |-> 0]
    /\ round = [n \in Nodes |-> None] /\ ballots = {}
    /\ lease = [n \in Nodes |-> None] /\ leading = [n \in Nodes |-> 0]
    /\ commit = [n \in Nodes |-> None] /\ log = [n \in Nodes |-> <<>>]
    /\ led = {}

-----------------------------------------------------------------------------
(* A voter's judgement of candidate `c' standing at epoch `e', at `t'.     *)

\* Mutant: an epoch granted to another candidate is granted again.
DecidedBelow(x, e, c) == e < x.seen \/ (x.granted # None /\ e < x.granted.epoch)

\* The epoch is below one this voter has seen, or it is granted to somebody else.
Decided(x, e, c) ==
    \/ e < x.seen
    \/ x.granted # None /\ (e < x.granted.epoch \/ (e = x.granted.epoch /\ c # x.granted.candidate))
\* Mutant: the answer names the epoch after the one decided.
DecidedPast(x, e) == x.seen + 1
DecidedAt(x, e) == IF e < x.seen THEN x.seen ELSE x.granted.epoch

\* Mutant: a live grant stops nobody.
FreeAlways(x, c, t) == TRUE

\* A grant to somebody else, found over or still running.
Free(x, c, t) ==
    x.granted # None /\ x.granted.candidate # c => MayBeOver(t, x.granted.at, x.granted.hold)
Alive(x, c, t) ==
    /\ x.granted # None /\ x.granted.candidate # c
    /\ MayBeRunning(t, x.granted.at, x.granted.hold)

\* The lease a restarted voter sits out: the longer of its policy's and the build's.
Sitting(x) == Larger(x.hold, TTL)

\* Mutant: a restarted voter answers at once.
SettledAtOnce(x, t) == TRUE

Settled(x, t) == x.granted = None => MayBeOver(t, x.started, Sitting(x))
Starting(x, t) == x.granted = None /\ MayBeRunning(t, x.started, Sitting(x))

MayGrant(x, e, c, t) == ~Decided(x, e, c) /\ Free(x, c, t) /\ Settled(x, t)

Adopt(x, e) == [x EXCEPT !.seen = Larger(x.seen, e)]
Grant(x, e, c, t) ==
    [Adopt(x, e) EXCEPT !.granted = [epoch |-> e, candidate |-> c, at |-> t, hold |-> x.hold]]

\* The incumbent re-asking the epoch this voter's tail was written under is not
\* put to the election restriction; everybody else is.
Renews(v, b) ==
    /\ voter[v].granted # None
    /\ voter[v].granted.candidate = b.from /\ voter[v].granted.epoch = b.epoch
    /\ TailLeadership(v) = b.epoch
LogBehind(v, b) == ~Renews(v, b) /\ Behind(b.reached, Reached(v))

-----------------------------------------------------------------------------
(* The door: one ballot judged, and its answer counted while the round     *)
(* that put it is open.                                                    *)

\* The vote reaches the round, unless the round is over or the answer is lost.
Heard(b, h) == (h => b.live) /\ (~h /\ b.live => Losing)

Counts(b, h, hold) ==
    round' = IF h THEN [round EXCEPT ![b.from].granted = @ \cup {b.to},
                                     ![b.from].shortest = Smaller(@, hold)]
             ELSE round

Noted(b, h, e) ==
    round' = IF h THEN [round EXCEPT ![b.from].noted = Larger(@, e)] ELSE round

AnswerGranted(b) ==
    LET x == voter[b.to] IN
    /\ ~LogBehind(b.to, b) /\ MayGrant(x, b.epoch, b.from, now)
    /\ voter' = [voter EXCEPT ![b.to] = Grant(x, b.epoch, b.from, now)]
    /\ \E h \in BOOLEAN : Heard(b, h) /\ Counts(b, h, x.hold)

AnswerDecided(b) ==
    LET x == voter[b.to] IN
    /\ ~LogBehind(b.to, b) /\ Decided(x, b.epoch, b.from)
    /\ \E h \in BOOLEAN : Heard(b, h) /\ Noted(b, h, DecidedAt(x, b.epoch))
    /\ UNCHANGED voter

AnswerAlive(b) ==
    /\ ~LogBehind(b.to, b) /\ ~Decided(voter[b.to], b.epoch, b.from)
    /\ Alive(voter[b.to], b.from, now)
    /\ UNCHANGED <<voter, round>>

\* Refused for a recent start, and the epoch kept all the same.
AnswerStarting(b) ==
    LET x == voter[b.to] IN
    /\ ~LogBehind(b.to, b) /\ ~Decided(x, b.epoch, b.from) /\ Starting(x, now)
    /\ voter' = [voter EXCEPT ![b.to] = Adopt(x, b.epoch)]
    /\ UNCHANGED round

AnswerBehind(b) == LogBehind(b.to, b) /\ UNCHANGED <<voter, round>>

Answer(b) ==
    /\ \/ AnswerGranted(b) \/ AnswerDecided(b) \/ AnswerAlive(b)
       \/ AnswerStarting(b) \/ AnswerBehind(b)
    /\ ballots' = ballots \ {b}
    /\ UNCHANGED <<clock, policy, cursor, store, led>>

-----------------------------------------------------------------------------
(* The leadership pass of a candidate: hold grants for what the policy     *)
(* states, and stand unless a leader is heard or there is margin left.     *)

Idle(n) == round[n] = None /\ leading[n] = standing[n].epoch

Held(n) == [voter[n] EXCEPT !.hold = policy[n]]

HearsALeader(n) ==
    LET g == voter[n].granted IN
    g # None /\ g.candidate # n /\ now - g.at + Drift <= policy[n]

Due(n) == now + Drift >= Fence(standing[n]) - 2 * RoundTime

\* The epoch held while nothing says the cluster moved past it, or the next one.
NextEpoch(n) ==
    LET held == standing[n].epoch IN
    IF held > 0 /\ stood[n] = held /\ heard[n] <= held THEN held
    ELSE Larger(held, Larger(stood[n], heard[n])) + 1

\* A pass that does not stand.
Pass(n) ==
    /\ Idle(n) /\ voter[n].hold # policy[n]
    /\ voter' = [voter EXCEPT ![n] = Held(n)]
    /\ UNCHANGED <<clock, policy, cursor, round, ballots, store, led>>

Open(n) ==
    /\ Idle(n) /\ n \in Candidates /\ ~HearsALeader(n) /\ Due(n)
    /\ NextEpoch(n) <= MaxEpoch
    /\ voter' = [voter EXCEPT ![n] = Held(n)]
    /\ round' = [round EXCEPT ![n] = [epoch |-> NextEpoch(n), opened |-> now,
                                     shortest |-> policy[n], granted |-> {}, noted |-> 0]]
    /\ ballots' = ballots \cup
         {[to |-> m, from |-> n, epoch |-> NextEpoch(n), reached |-> Reached(n), live |-> TRUE] :
            m \in Reaches[n] \ {n}}
    /\ UNCHANGED <<clock, policy, cursor, store, led>>

\* Once a node stops waiting for its ballots, each is lost or still on its way.
Unheard(n) ==
    LET others == {b \in ballots : b.from # n}
        late == {[b EXCEPT !.live = FALSE] : b \in ballots \ others}
    IN  {others \cup kept : kept \in {s \in SUBSET late :
            Cardinality(s) + Cardinality({b \in others : ~b.live}) <= MaxLate}}

\* The candidate's own vote: cast last, only when it decides something, by the
\* memory its door answers from and at the instant the pass began.
OwnVotes == {"uncast", "granted", "decided", "alive", "starting"}
OwnVote(n, own) ==
    LET r == round[n]
        x == voter[n]
        cast == Majority - Cardinality(r.granted) <= 1
    IN  CASE own = "uncast"   -> ~cast
          [] own = "granted"  -> cast /\ MayGrant(x, r.epoch, n, r.opened)
          [] own = "decided"  -> cast /\ Decided(x, r.epoch, n)
          [] own = "alive"    -> cast /\ ~Decided(x, r.epoch, n) /\ Alive(x, n, r.opened)
          [] own = "starting" -> cast /\ ~Decided(x, r.epoch, n) /\ Starting(x, r.opened)

Voted(n, own) ==
    CASE own = "granted"  -> Grant(voter[n], round[n].epoch, n, round[n].opened)
      [] own = "starting" -> Adopt(voter[n], round[n].epoch)
      [] OTHER            -> voter[n]

Votes(n, own) == round[n].granted \cup IF own = "granted" THEN {n} ELSE {}
Length(n, own) ==
    IF own = "granted" THEN Smaller(round[n].shortest, voter[n].hold) ELSE round[n].shortest

\* A grant this node made above its own round ends the round, whatever the votes say.
Promised(x, e) == x.granted # None /\ x.granted.epoch > e

\* Mutant: a win the peers carried is not recorded here.
CarriedUnrecorded(x, n, r) == x

\* A carried round is taken into this node's own memory, dated from the opening.
Carried(x, n, r) == Grant(x, r.epoch, n, r.opened)

Won(n, own) ==
    LET r == round[n]
        won == [epoch |-> r.epoch, from |-> r.opened, length |-> Length(n, own)]
    IN  /\ Cardinality(Votes(n, own)) >= Majority
        /\ ~Promised(Voted(n, own), r.epoch)
        /\ voter' = [voter EXCEPT ![n] = Carried(Voted(n, own), n, r)]
        /\ standing' = [standing EXCEPT ![n] = won]
        /\ stood' = [stood EXCEPT ![n] = r.epoch]
        /\ lease' = [lease EXCEPT ![n] = won]
        /\ led' = led \cup {<<r.epoch, n>>}
        /\ UNCHANGED heard

\* The highest epoch the round's answers named.
Told(n, own) ==
    Larger(round[n].noted,
      Larger(IF own = "decided" THEN DecidedAt(voter[n], round[n].epoch) ELSE 0,
             IF Promised(Voted(n, own), round[n].epoch) /\ Cardinality(Votes(n, own)) >= Majority
             THEN Voted(n, own).granted.epoch ELSE 0))

Lost(n, own) ==
    /\ Cardinality(Votes(n, own)) < Majority \/ Promised(Voted(n, own), round[n].epoch)
    /\ voter' = [voter EXCEPT ![n] = Voted(n, own)]
    /\ stood' = [stood EXCEPT ![n] = round[n].epoch]
    /\ heard' = [heard EXCEPT ![n] = Larger(@, Told(n, own))]
    /\ UNCHANGED <<standing, lease, led>>

Close(n) ==
    /\ round[n] # None
    /\ \E own \in OwnVotes : OwnVote(n, own) /\ (Won(n, own) \/ Lost(n, own))
    /\ round' = [round EXCEPT ![n] = None]
    /\ ballots' \in Unheard(n)
    /\ UNCHANGED <<clock, policy, leading, commit, log>>

\* The epoch is named after the lease it belongs to is already in force.
Name(n) ==
    /\ leading[n] # standing[n].epoch
    /\ leading' = [leading EXCEPT ![n] = standing[n].epoch]
    /\ UNCHANGED <<clock, policy, voter, cursor, round, ballots, lease, commit, log, led>>

-----------------------------------------------------------------------------
(* Writes: admitted under the fence and stamped, and judged by the fence   *)
(* again once the commit holds its turn.                                   *)

Window(l) == Fence(l) - l.from
MayWrite(n) == lease[n] # None /\ MayBeRunning(now, lease[n].from, Window(lease[n]))

\* The newest leadership row this node holds names another node, and its own
\* epoch does not supersede it.
LedElsewhere(n) ==
    log[n] # <<>> /\ log[n][Len(log[n])].by # n /\ leading[n] <= TailLeadership(n)

\* Mutant: the stamp is the leadership the node's log ends in.
AdmitUnderTail(n) ==
    /\ commit[n] = None /\ Len(log[n]) < MaxLog
    /\ MayWrite(n) /\ ~LedElsewhere(n)
    /\ commit' = [commit EXCEPT ![n] = IF log[n] = <<>> THEN leading[n] ELSE TailLeadership(n)]
    /\ UNCHANGED <<clock, policy, voter, cursor, round, ballots, lease, leading, log, led>>

Admit(n) ==
    /\ commit[n] = None /\ Len(log[n]) < MaxLog
    /\ MayWrite(n) /\ ~LedElsewhere(n)
    /\ commit' = [commit EXCEPT ![n] = leading[n]]
    /\ UNCHANGED <<clock, policy, voter, cursor, round, ballots, lease, leading, log, led>>

\* The record names the leadership its commit was stamped with, not the one in force
\* as it lands.  A commit stamped with no leadership is filed in the node's own log, not the line's.
Land(n) ==
    /\ commit[n] # None /\ MayWrite(n)
    /\ commit' = [commit EXCEPT ![n] = None]
    /\ log' = IF commit[n] = 0 THEN log
              ELSE [log EXCEPT ![n] = Append(@, [epoch |-> commit[n], by |-> n])]
    /\ UNCHANGED <<clock, policy, voter, cursor, round, ballots, lease, leading, led>>

\* A commit that finds the fence shut is refused.
RefuseFenced(n) ==
    /\ commit[n] # None /\ MayBeOver(now, lease[n].from, Window(lease[n]))
    /\ commit' = [commit EXCEPT ![n] = None]
    /\ UNCHANGED <<clock, policy, voter, cursor, round, ballots, lease, leading, log, led>>

\* Mutant: the histories are taken to be one.
NotPartedAtAll(n, m) == TRUE

\* The record before the first one carried was written under one leadership in
\* both copies: all a follower can check before it appends.
NotParted(n, m) == log[n] # <<>> => log[m][Len(log[n])].epoch = TailLeadership(n)

\* The answer states a leadership no older than the one the follower's own log ends
\* in, or none: a holder of the line's log that leads nothing serves it too.
NotDeposed(n, m) == leading[m] > 0 => leading[m] >= TailLeadership(n)

\* A follower collects the next record it does not hold.
Collect(n, m) ==
    /\ n # m /\ Len(log[n]) < Len(log[m])
    /\ NotDeposed(n, m) /\ NotParted(n, m)
    /\ log' = [log EXCEPT ![n] = Append(@, log[m][Len(log[n]) + 1])]
    /\ UNCHANGED <<clock, policy, voter, cursor, round, ballots, lease, leading, commit, led>>

-----------------------------------------------------------------------------
Tick ==
    /\ now < MaxTime
    /\ \A n \in Nodes : round[n] # None => now - round[n].opened < MaxCanvass
    /\ now' = now + 1
    /\ UNCHANGED <<policy, voter, cursor, round, ballots, store, led, restarts>>

\* A node starts again: its memory is gone, its log and catalog are not.  The
\* first pass, which reads the policy, is part of starting.
Restart(n) ==
    /\ n \in Restarting /\ restarts < MaxRestarts
    /\ restarts' = restarts + 1
    /\ voter' = [voter EXCEPT ![n] = [Started(now) EXCEPT !.hold = policy[n]]]
    /\ standing' = [standing EXCEPT ![n] = Spent(now)]
    /\ stood' = [stood EXCEPT ![n] = 0]
    /\ heard' = [heard EXCEPT ![n] = TailLeadership(n)]
    /\ round' = [round EXCEPT ![n] = None]
    /\ ballots' \in {{b \in left : b.to # n} : left \in Unheard(n)}
    /\ lease' = [lease EXCEPT ![n] = None]
    /\ leading' = [leading EXCEPT ![n] = 0]
    /\ commit' = [commit EXCEPT ![n] = None]
    /\ UNCHANGED <<now, policy, log, led>>

\* A failover policy reaches this node's catalog.
Install(n, d) ==
    /\ policy[n] # d /\ restarts < MaxRestarts
    /\ restarts' = restarts + 1
    /\ policy' = [policy EXCEPT ![n] = d]
    /\ UNCHANGED <<now, voter, cursor, round, ballots, store, led>>

Next ==
    \/ Tick
    \/ \E b \in ballots : Answer(b)
    \/ \E n \in Nodes :
         \/ Pass(n) \/ Open(n) \/ Close(n) \/ Name(n)
         \/ Admit(n) \/ Land(n) \/ RefuseFenced(n) \/ Restart(n)
         \/ \E m \in Nodes : Collect(n, m)
         \/ \E d \in Policies : Install(n, d)

Spec == Init /\ [][Next]_vars

-----------------------------------------------------------------------------
Epochs == 0..MaxEpoch
Leaderships == [epoch : Epochs, from : Int, length : Nat]
Grants == [epoch : Epochs, candidate : Nodes, at : Int, hold : Nat]
Voters == [started : Int, hold : Nat, granted : Grants \cup {None}, seen : Epochs]
Rounds == [epoch : Epochs, opened : Int, shortest : Nat, granted : SUBSET Nodes, noted : Epochs]
Ballots == [to : Nodes, from : Nodes, epoch : Epochs,
            reached : [leadership : Epochs, tail : Nat], live : BOOLEAN]
Records == [epoch : Epochs, by : Nodes]

ASSUME NoneApart ==
    None \notin Grants /\ None \notin Rounds /\ None \notin Leaderships /\ None \notin Nat

\* Type: every part of a node is what the structs of grant.rs, renewing.rs and
\* lease.rs hold, and an epoch in any of them is one that was stood at.
TypeOK ==
    /\ now \in 0..MaxTime /\ restarts \in 0..MaxRestarts
    /\ policy \in [Nodes -> Nat]
    /\ voter \in [Nodes -> Voters]
    /\ standing \in [Nodes -> Leaderships]
    /\ stood \in [Nodes -> Epochs] /\ heard \in [Nodes -> Epochs]
    /\ round \in [Nodes -> Rounds \cup {None}]
    /\ ballots \subseteq Ballots
    /\ lease \in [Nodes -> Leaderships \cup {None}]
    /\ leading \in [Nodes -> Epochs] /\ commit \in [Nodes -> Epochs \cup {None}]
    /\ log \in [Nodes -> Seq(Records)]
    /\ led \subseteq Epochs \X Nodes

\* Two nodes are never both inside their fences, however their clocks drift and
\* whatever a voter forgot (lease.rs: the fence closes before the grant opens).
OneWriter == \A m, n \in Nodes : MayWrite(m) /\ MayWrite(n) => m = n

\* A node still inside its fence is the one its own voter holds a grant for, so
\* its own door cannot hand the next epoch to a challenger (campaign.rs, the self-vote).
OwnVoterHolds ==
    \A n \in Nodes : MayWrite(n) =>
        voter[n].granted # None /\ voter[n].granted.candidate = n
            /\ voter[n].granted.epoch = lease[n].epoch

\* One epoch is won by one node (grant.rs: one grant per epoch is the whole
\* safety argument).
OneLeaderPerEpoch == \A p, q \in led : p[1] = q[1] => p[2] = q[2]

\* Whoever is inside its fence holds the newest leadership anybody has won: no
\* later round was carried around a live lease (voter.rs, asked).
WriterIsNewest == \A n \in Nodes : MayWrite(n) => \A p \in led : p[1] <= lease[n].epoch

\* The records of one leadership, in whatever copy, were written by one node
\* (apply.rs: a leadership has exactly one writer and its epoch alone says so).
EpochHasOneAuthor ==
    \A m, n \in Nodes : \A i \in 1..Len(log[m]), j \in 1..Len(log[n]) :
        log[m][i].epoch = log[n][j].epoch => log[m][i].by = log[n][j].by

\* Two copies that hold a record of one leadership at one position hold the same
\* history up to it, although only the record before the one appended is ever
\* compared (apply.rs, refuse_a_parted_history).
LogsMatch ==
    \A m, n \in Nodes : \A i \in 1..Smaller(Len(log[m]), Len(log[n])) :
        log[m][i].epoch = log[n][i].epoch => SubSeq(log[m], 1, i) = SubSeq(log[n], 1, i)

=============================================================================
