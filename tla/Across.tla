------------------------------- MODULE Across -------------------------------
(***************************************************************************)
(* One transaction T that writes ranges led by different nodes (tessari-   *)
(* session: session/across.rs, across/{answering,driver,recovery}.rs,      *)
(* across/driver/parallel.rs; tessari-storage: transaction/across.rs,      *)
(* across/resolving.rs, intents.rs, pruning.rs; tessaridb: across.rs).     *)
(*                                                                         *)
(* T's record lives in the range Coord.  Every other range holds T's       *)
(* writes as intents until the record decides.  A driver, the node T ran   *)
(* on, asks the ranges' leaders; it may stop at any point.  Housekeeping   *)
(* at each leader finishes what nobody came back to.                       *)
(*                                                                         *)
(* A range's line is what its leader had applied after each record of its  *)
(* log that concerns T, from the newest a majority holds on: a change of   *)
(* leader may lose all but the first.  It begins where T's node had read   *)
(* it.  A record written again as it stands takes no new place in it.      *)
(* Clocks agree: `overdue' is everyone's.                                  *)
(***************************************************************************)
EXTENDS Integers, Sequences, FiniteSets

CONSTANTS
    Ranges,         \* the ranges T writes
    Coord,          \* the first of them, which holds T's record
    Merges,         \* the driver's ways: TRUE, one staged round; FALSE, a PENDING record first
    Pruned,         \* the ranges whose logs retention trims
    Lingers,        \* whether an ask not answered yet outlives the forgetting of T's record
    Written,        \* the ranges where others write T's record
    MaxMishaps,     \* bound: changes of leader and asks of lagging copies
    None

\* How T's record stands; what an answer says; what becomes of T or of a part of it.
Standings == {"pending", "staging", "committed", "aborted"}
Says == Standings \cup {"ok", "absent", "landed", "barred"}
Outcomes == {"committed", "aborted", "doubt", "kept", "dropped"}

ASSUME AcrossAssumption ==
    /\ IsFiniteSet(Ranges) /\ Coord \in Ranges
    /\ Merges \subseteq BOOLEAN /\ Pruned \subseteq Ranges
    /\ Written \subseteq Ranges /\ Lingers \in BOOLEAN /\ MaxMishaps \in Nat
    /\ None \notin Ranges /\ "driver" \notin Ranges /\ None # "driver"
    /\ None \notin Outcomes /\ None \notin [is : Standings, of : SUBSET Ranges]
    /\ None \notin [says : Says, of : Ranges, at : Nat]

VARIABLES
    line,                       \* each range's log, as its leader has applied it
    trimmed,                    \* whether the leader's log still reaches what T had seen
    net,                        \* asks on their way to a leader
    pc, merged, known, missed,  \* the driver: its place, its way, the parts it heard land or not
    reply,                      \* the answer on its way to the driver
    told, looked,               \* what the caller was told; history: asked for past the deadline
    overdue,                    \* whether the record's deadline has passed
    settling,                   \* the settles that have read T's record and not yet written it
    overtaken,                  \* history: a settle's abort, decided on an older read, replaced STAGING
    verdict,                    \* the answer on its way to each range's housekeeping
    recovering,                 \* whether Coord's housekeeping is recovering a staging record
    gone,                       \* the participants that answered they hold no intent
    mishaps                     \* how many of them there were

driverVars == <<pc, merged, known, missed, reply, told, looked>>
settleVars == <<settling, overtaken>>
houseVars == <<overdue, settleVars, verdict, recovering, gone>>
vars == <<line, trimmed, net, driverVars, houseVars, mishaps>>

---------------------------------------------------------------------------
(* What a range's leader keeps of T.                                       *)

\* The record (Coord alone), T's intent, the marker that the part landed, whether
\* the part was barred, the value readers find, and how the intent was resolved.
Untouched == [rec |-> None, intent |-> FALSE, landed |-> FALSE, barred |-> FALSE,
              value |-> "read", fate |-> None]

\* Mutant: a record that stands is taken for a decision.
DecidedOnceWritten(rec) == rec # None

Decided(rec) == rec # None /\ rec.is \in {"committed", "aborted"}

\* The leader's state of range r, and the newest a majority holds.
Tip(r) == line[r][Len(line[r])]
Kept(r) == line[r][1]

\* Range r applies s, after what it had applied.
Apply(r, s) == line' = [line EXCEPT ![r] = IF s = Tip(r) THEN @ ELSE Append(@, s)]

\* Whether the record as it stands may become `decision' (recorded).
Accepts(rec, decision, begins) ==
    \/ rec = None /\ decision # "committed"
    \/ rec # None /\ rec.is = "pending" /\ ~begins
    \/ rec # None /\ rec.is = "staging" /\ ~begins /\ decision # "pending"
    \/ Decided(rec) /\ decision = rec.is

\* Mutant: a log trimmed past what T had seen is taken to hold no write.
UnwrittenAsFarAsSeen(r) == trimmed[r] \/ Tip(r).value = "read"

\* Whether nothing the log holds after what T had seen wrote T's record, and the
\* log still reaches back to that (written_since_seen).
Unwritten(r) == ~trimmed[r] /\ Tip(r).value = "read"

\* Mutant: a prepare that arrives late is let in.
NeverBarred(r) == FALSE

\* A bar goes with the log record that wrote it, which T had not seen (unbar_below).
Barred(r) == Tip(r).barred /\ ~trimmed[r]

\* Range r's intent becomes a value, or goes (resolved).
Resolve(s, committed) ==
    IF ~s.intent THEN s
    ELSE [s EXCEPT !.intent = FALSE,
                   !.value = IF committed THEN "T" ELSE @,
                   !.fate = IF committed THEN "kept" ELSE "dropped"]

---------------------------------------------------------------------------
(* The asks, answered at a range's leader.                                 *)

Ask(kind, r) == [kind |-> kind, range |-> r]

Kinds == {"open", "begin", "prepare", "settle", "lookup", "bar", "commit", "abort",
          "conclude", "keep", "drop"}

\* An ask arrives.
Arrives(kind, r) ==
    /\ Ask(kind, r) \in net
    /\ net' = net \ {Ask(kind, r)}

\* The driver's place while it waits for this answer.
Waits(kind) ==
    CASE kind = "open" -> "opening"
      [] kind \in {"settle", "lookup"} -> "asking"
      [] kind = "bar" -> "barring"
      [] OTHER -> "deciding"

\* The answer, given once a majority of r holds its line through place `at'.
Answers(kind, r, says, at) ==
    reply' = IF pc = Waits(kind) THEN [says |-> says, of |-> r, at |-> at] ELSE reply

\* AcrossAsk::Prepare.
Prepare(r) ==
    /\ Arrives("prepare", r)
    /\ IF Unwritten(r) /\ ~Tip(r).intent /\ ~Barred(r)
          THEN Apply(r, [Tip(r) EXCEPT !.intent = TRUE, !.landed = TRUE])
          ELSE UNCHANGED line
    /\ UNCHANGED <<trimmed, driverVars, houseVars, mishaps>>

\* AcrossAsk::Begin: the record and Coord's own part, or neither.
Begin ==
    /\ Arrives("begin", Coord)
    /\ IF Unwritten(Coord) /\ ~Tip(Coord).intent /\ Accepts(Tip(Coord).rec, "staging", TRUE)
          THEN Apply(Coord, [Tip(Coord) EXCEPT !.rec = [is |-> "staging", of |-> Ranges],
                                               !.intent = TRUE, !.landed = TRUE])
          ELSE UNCHANGED line
    /\ UNCHANGED <<trimmed, driverVars, houseVars, mishaps>>

\* AcrossAsk::Decide, the driver's.
Decision(kind) ==
    CASE kind = "open" -> "pending" [] kind = "commit" -> "committed" [] OTHER -> "aborted"
Decide(kind) ==
    LET rec == Tip(Coord).rec IN
    /\ Arrives(kind, Coord)
    /\ IF Accepts(rec, Decision(kind), FALSE)
          THEN /\ Apply(Coord, [Tip(Coord) EXCEPT !.rec = [is |-> Decision(kind), of |-> Ranges]])
               /\ Answers(kind, Coord, "ok", Len(line'[Coord]))
          ELSE /\ Answers(kind, Coord, IF rec = None THEN "absent" ELSE rec.is, 1)
               /\ UNCHANGED line
    /\ UNCHANGED <<trimmed, pc, merged, known, missed, told, looked, houseVars, mishaps>>

\* What settle_across writes once it has read rec: a decision as it stands, and
\* ABORTED for an absent record and for a pending one that is overdue.  A staging
\* record is left to status recovery: nothing is written, and it is answered at once.
Settled(rec) ==
    IF rec = None THEN [is |-> "aborted", of |-> {Coord}]
    ELSE IF Decided(rec) THEN rec
    ELSE IF rec.is = "pending" /\ overdue THEN [rec EXCEPT !.is = "aborted"]
    ELSE None

\* What a settle asked for by `who' has yet to write, after its read.
Reads(who) == {[to |-> who, writes |-> rec] : rec \in {Settled(Tip(Coord).rec)} \ {None}}

\* AcrossAsk::Settle, the driver's: the read.
Settle ==
    LET rec == Tip(Coord).rec IN
    /\ Arrives("settle", Coord)
    /\ settling' = settling \cup Reads("driver")
    /\ IF Settled(rec) = None THEN Answers("settle", Coord, rec.is, 1) ELSE UNCHANGED reply
    /\ UNCHANGED <<line, trimmed, pc, merged, known, missed, told, looked>>
    /\ UNCHANGED <<overdue, overtaken, verdict, recovering, gone, mishaps>>

\* AcrossAsk::Lookup, the driver's: a settle of a decided record, and nothing written
\* otherwise.
Lookup ==
    LET rec == Tip(Coord).rec IN
    /\ Arrives("lookup", Coord)
    /\ IF Decided(rec)
          THEN settling' = settling \cup Reads("driver") /\ UNCHANGED reply
          ELSE /\ Answers("lookup", Coord, IF rec = None THEN "pending" ELSE rec.is, 1)
               /\ UNCHANGED settling
    /\ UNCHANGED <<line, trimmed, pc, merged, known, missed, told, looked>>
    /\ UNCHANGED <<overdue, overtaken, verdict, recovering, gone, mishaps>>

\* A settle writes what it has made of the record it read, if the record as it
\* stands by now accepts that, and answers once a majority holds it; refused, it
\* reads again.
SettleWrites(s) ==
    /\ s \in settling
    /\ IF Accepts(Tip(Coord).rec, s.writes.is, FALSE)
          THEN /\ Apply(Coord, [Tip(Coord) EXCEPT !.rec = s.writes])
               /\ settling' = settling \ {s}
               /\ overtaken' = (overtaken \/ (Tip(Coord).rec # None /\ Tip(Coord).rec.is = "staging"))
               /\ LET answer == [says |-> s.writes.is, of |-> Coord, at |-> Len(line'[Coord])]
                  IN  /\ reply' = IF s.to = "driver" /\ pc = "asking" THEN answer ELSE reply
                      /\ verdict' = [r \in Ranges |-> IF r = s.to THEN answer ELSE verdict[r]]
          ELSE /\ settling' = (settling \ {s}) \cup Reads(s.to)
               /\ UNCHANGED <<line, overtaken, reply, verdict>>
    /\ UNCHANGED <<trimmed, net, pc, merged, known, missed, told, looked>>
    /\ UNCHANGED <<overdue, recovering, gone, mishaps>>

\* The part barred, unless it has landed (Part::Prevent).
Prevent(r) ==
    IF Tip(r).landed \/ Barred(r) THEN UNCHANGED line
    ELSE Apply(r, [Tip(r) EXCEPT !.barred = TRUE])

\* AcrossAsk::Bar, the driver's.
Bar(r) ==
    /\ Arrives("bar", r)
    /\ Prevent(r)
    /\ Answers("bar", r, IF Tip(r).landed THEN "landed" ELSE "barred", Len(line'[r]))
    /\ UNCHANGED <<trimmed, pc, merged, known, missed, told, looked, houseVars, mishaps>>

\* AcrossAsk::Conclude: the decision and Coord's resolution, or neither.
Conclude ==
    /\ Arrives("conclude", Coord)
    /\ IF Accepts(Tip(Coord).rec, "committed", FALSE)
          THEN Apply(Coord, Resolve([Tip(Coord) EXCEPT !.rec = [is |-> "committed", of |-> Ranges]],
                                    TRUE))
          ELSE UNCHANGED line
    /\ UNCHANGED <<trimmed, driverVars, houseVars, mishaps>>

\* AcrossAsk::Resolve, the driver's.
ResolvePart(kind, r) ==
    /\ Arrives(kind, r)
    /\ Apply(r, Resolve(Tip(r), kind = "keep"))
    /\ UNCHANGED <<trimmed, driverVars, houseVars, mishaps>>

---------------------------------------------------------------------------
(* The driver.                                                             *)

\* What is still written behind the answer.
Concluding == {Ask("conclude", Coord)} \cup {Ask("keep", r) : r \in Ranges \ {Coord}}
Keeping == {Ask("keep", r) : r \in Ranges}
Dropping == {Ask("drop", r) : r \in Ranges}

Tell(outcome) == told' = outcome /\ pc' = "done"

\* The prepare round: with a merged record, Coord's part begins the record.
Round == {Ask("prepare", r) : r \in Ranges \ {Coord}}
            \cup {Ask(IF merged THEN "begin" ELSE "prepare", Coord)}

\* The driver sends its first asks.
Start ==
    /\ pc = "idle"
    /\ pc' = IF merged THEN "preparing" ELSE "opening"
    /\ net' = net \cup IF merged THEN Round ELSE {Ask("open", Coord)}
    /\ UNCHANGED <<line, trimmed, merged, known, missed, reply, told, looked, houseVars, mishaps>>

\* A majority holds range r's part, and the driver hears so.
HearPrepared(r) ==
    /\ pc = "preparing" /\ r \notin known \cup missed
    /\ Kept(r).landed
    /\ known' = known \cup {r}
    /\ UNCHANGED <<line, trimmed, net, pc, merged, missed, reply, told, looked, houseVars, mishaps>>

\* A refusal, or an answer that never came: the driver cannot tell them apart.
MissPrepared(r) ==
    /\ pc = "preparing" /\ r \notin known \cup missed
    /\ missed' = missed \cup {r}
    /\ UNCHANGED <<line, trimmed, net, pc, merged, known, reply, told, looked, houseVars, mishaps>>

\* Every part answered, with a PENDING record: the driver decides.
Finish ==
    /\ pc = "preparing" /\ known \cup missed = Ranges /\ ~merged
    /\ pc' = "deciding"
    /\ net' = net \cup {Ask(IF missed = {} THEN "commit" ELSE "abort", Coord)}
    /\ UNCHANGED <<line, trimmed, merged, known, missed, reply, told, looked, houseVars, mishaps>>

\* Every part answered, with a staging record (finish_parallel).
FinishParallel ==
    /\ pc = "preparing" /\ known \cup missed = Ranges /\ merged
    /\ \/ /\ missed = {}
          /\ Tell("committed")
          /\ net' = net \cup Concluding
          /\ UNCHANGED looked
       \/ /\ missed # {} /\ Coord \in known
          /\ pc' = "recovering"
          /\ UNCHANGED <<net, told, looked>>
       \/ /\ Coord \in missed
          /\ pc' = "asking"
          /\ net' = net \cup {Ask(IF overdue THEN "lookup" ELSE "settle", Coord)}
          /\ looked' = overdue
          /\ UNCHANGED told
    /\ UNCHANGED <<line, trimmed, merged, known, missed, reply, houseVars, mishaps>>

\* Status recovery, the driver's (Staged): bar the parts not heard to land, one
\* at a time; none left, T is committed.
Recover ==
    /\ pc = "recovering"
    /\ \/ \E r \in Ranges \ known :
             /\ pc' = "barring"
             /\ net' = net \cup {Ask("bar", r)}
             /\ UNCHANGED told
       \/ /\ known = Ranges
          /\ Tell("committed")
          /\ net' = net \cup Concluding
    /\ UNCHANGED <<line, trimmed, merged, known, missed, reply, looked, houseVars, mishaps>>

\* The driver goes on after an answer.
Hear ==
    /\ reply # None /\ reply.at = 1
    /\ reply' = None
    /\ \/ /\ pc = "opening" /\ reply.says = "ok"
          /\ pc' = "preparing"
          /\ net' = net \cup Round
          /\ UNCHANGED <<known, told>>
       \/ /\ pc = "asking" /\ reply.says = "staging"
          /\ pc' = "recovering"
          /\ UNCHANGED <<net, known, told>>
       \/ /\ pc = "asking" /\ reply.says = "aborted"
          /\ Tell("aborted")
          /\ net' = net \cup Dropping
          /\ UNCHANGED known
       \/ /\ pc = "asking" /\ reply.says = "committed"
          /\ Tell("committed")
          /\ UNCHANGED <<net, known>>
       \/ /\ pc = "barring" /\ reply.says = "landed"
          /\ pc' = "recovering"
          /\ known' = known \cup {reply.of}
          /\ UNCHANGED <<net, told>>
       \/ /\ pc = "barring" /\ reply.says = "barred"
          /\ pc' = "deciding"
          /\ net' = net \cup {Ask("abort", Coord)}
          /\ UNCHANGED <<known, told>>
       \/ /\ pc = "deciding" /\ ~merged /\ missed = {} /\ reply.says = "ok"
          /\ Tell("committed")
          /\ net' = net \cup Keeping
          /\ UNCHANGED known
       \/ /\ pc = "deciding" /\ ~merged /\ missed = {} /\ reply.says = "aborted"
          /\ Tell("aborted")
          /\ UNCHANGED <<net, known>>
    /\ UNCHANGED <<line, trimmed, merged, missed, looked, houseVars, mishaps>>

\* Mutant: whatever the driver does not know it cleans up.
GiveUpAndDrop ==
    /\ pc \in {"opening", "asking", "barring", "deciding"}
    /\ reply' = None
    /\ Tell(IF pc = "opening" THEN "aborted" ELSE "doubt")
    /\ net' = net \cup Dropping
    /\ UNCHANGED <<line, trimmed, merged, known, missed, looked, houseVars, mishaps>>

\* The driver waits no longer, or was refused.  An abort it decided is the
\* outcome whether or not it is confirmed; anything else is in doubt.
GiveUp ==
    /\ pc \in {"opening", "asking", "barring", "deciding"}
    /\ reply' = None
    /\ \/ /\ pc = "opening"
          /\ Tell("aborted")
          /\ UNCHANGED net
       \/ /\ pc = "deciding" /\ (merged \/ missed # {})
          /\ Tell("aborted")
          /\ net' = net \cup Dropping
       \/ /\ pc \in {"asking", "barring"} \/ (pc = "deciding" /\ ~merged /\ missed = {})
          /\ Tell("doubt")
          /\ UNCHANGED net
    /\ UNCHANGED <<line, trimmed, merged, known, missed, looked, houseVars, mishaps>>

---------------------------------------------------------------------------
(* Housekeeping at the leaders (Db::settle_across).                        *)

\* Coord's leader settles its own PENDING record once it is overdue.
HouseAbort ==
    /\ overdue
    /\ Tip(Coord).rec # None /\ Tip(Coord).rec.is = "pending"
    /\ settling' = settling \cup Reads(None)
    /\ UNCHANGED <<line, trimmed, net, driverVars, overdue, overtaken, verdict, recovering, gone, mishaps>>

\* Mutant: an absent record is waited for.
AskedInVain(r) == IF Tip(Coord).rec # None THEN Reads(r) ELSE {}

\* What the ask of a node that holds an intent of T in r starts at Coord's leader: a
\* Lookup while the intent is young, a Settle after.
Asked(r) == IF overdue \/ Decided(Tip(Coord).rec) THEN Reads(r) ELSE {}

\* Range r's leader holds an intent of T and asks, one ask at a time.
HouseAsk(r) ==
    /\ Tip(r).intent /\ verdict[r] = None /\ \A s \in settling : s.to # r
    /\ Asked(r) # {}
    /\ settling' = settling \cup Asked(r)
    /\ UNCHANGED <<line, trimmed, net, driverVars, overdue, overtaken, verdict, recovering, gone, mishaps>>

\* So does a node whose copy still shows an intent its leader has resolved.
LaggardAsk ==
    /\ overdue /\ mishaps < MaxMishaps
    /\ \E r \in Ranges : Tip(r).landed
    /\ settling' = settling \cup Reads(None)
    /\ mishaps' = mishaps + 1
    /\ UNCHANGED <<line, trimmed, net, driverVars, overdue, overtaken, verdict, recovering, gone>>

\* Range r's leader resolves its intent as it was answered.
HouseResolve(r) ==
    /\ verdict[r] # None /\ verdict[r].at = 1
    /\ Apply(r, Resolve(Tip(r), verdict[r].says = "committed"))
    /\ verdict' = [verdict EXCEPT ![r] = None]
    /\ UNCHANGED <<trimmed, net, driverVars, overdue, settleVars, recovering, gone, mishaps>>

\* Coord's leader finds its record staging past the deadline.
HouseRecover ==
    /\ overdue /\ ~recovering
    /\ Tip(Coord).rec # None /\ Tip(Coord).rec.is = "staging"
    /\ recovering' = TRUE
    /\ UNCHANGED <<line, trimmed, net, driverVars, overdue, settleVars, verdict, gone, mishaps>>

\* It bars a part that has not landed.
HouseBar(r) ==
    /\ recovering /\ ~Tip(r).landed /\ ~Barred(r)
    /\ Prevent(r)
    /\ UNCHANGED <<trimmed, net, driverVars, houseVars, mishaps>>

\* Mutant: a part counts as soon as its leader has it.
RecoveredUnheld ==
    CASE \A r \in Ranges : Tip(r).landed -> "committed"
      [] \E r \in Ranges : Tip(r).barred -> "aborted"
      [] OTHER -> None

\* What the parts' leaders have answered it by now: a part landed, or barred, is
\* so for good once a majority holds it.
Recovered ==
    CASE \A r \in Ranges : Kept(r).landed -> "committed"
      [] \E r \in Ranges : Kept(r).barred -> "aborted"
      [] OTHER -> None

\* It decides the record, which loses to whoever decided first.
HouseDecide ==
    /\ recovering /\ Recovered # None
    /\ recovering' = FALSE
    /\ IF Accepts(Tip(Coord).rec, Recovered, FALSE)
          THEN Apply(Coord, [Tip(Coord) EXCEPT !.rec = [is |-> Recovered, of |-> Ranges]])
          ELSE UNCHANGED line
    /\ UNCHANGED <<trimmed, net, driverVars, overdue, settleVars, verdict, gone, mishaps>>

\* Participant r answers that it holds no intent, a majority holding its tail.
HouseHolds(r) ==
    /\ Decided(Tip(Coord).rec) /\ r \in Tip(Coord).rec.of \ gone
    /\ ~Tip(r).intent /\ Len(line[r]) = 1
    /\ gone' = gone \cup {r}
    /\ UNCHANGED <<line, trimmed, net, driverVars, overdue, settleVars, verdict, recovering, mishaps>>

\* Every participant answered: the record is forgotten.
HouseForget ==
    /\ Decided(Tip(Coord).rec) /\ Tip(Coord).rec.of \subseteq gone
    /\ Apply(Coord, [Tip(Coord) EXCEPT !.rec = None])
    /\ gone' = {}
    /\ net' = IF Lingers THEN net ELSE {}
    /\ settling' = IF Lingers THEN settling ELSE {}
    /\ UNCHANGED <<trimmed, driverVars, overdue, overtaken, verdict, recovering, mishaps>>

---------------------------------------------------------------------------
(* The ranges around T.                                                    *)

\* The deadline passes.
Lapse ==
    /\ ~overdue
    /\ overdue' = TRUE
    /\ UNCHANGED <<line, trimmed, net, driverVars, settleVars, verdict, recovering, gone, mishaps>>

\* Another transaction writes T's record in r; a standing intent refuses it.
Write(r) ==
    /\ r \in Written /\ ~Tip(r).intent
    /\ Apply(r, [Tip(r) EXCEPT !.value = "other"])
    /\ UNCHANGED <<trimmed, net, driverVars, houseVars, mishaps>>

\* An answer on its way, once a majority holds n - 1 more of range r's line, and
\* once a new leader holds only n of it.
Nearer(ans, r, n) ==
    IF ans # None /\ ans.of = r THEN [ans EXCEPT !.at = IF @ > n THEN @ - n + 1 ELSE 1] ELSE ans
Lost(ans, r, n) == IF ans # None /\ ans.of = r /\ ans.at > n THEN None ELSE ans

\* A majority holds more of range r's log.
Replicate(r) ==
    /\ \E n \in 2 .. Len(line[r]) :
          /\ line' = [line EXCEPT ![r] = SubSeq(@, n, Len(@))]
          /\ reply' = Nearer(reply, r, n)
          /\ verdict' = [s \in Ranges |-> Nearer(verdict[s], r, n)]
    /\ UNCHANGED <<trimmed, net, pc, merged, known, missed, told, looked>>
    /\ UNCHANGED <<overdue, settleVars, recovering, gone, mishaps>>

\* Retention trims range r's log past what T had seen, and the bars with it, but
\* never its last record (prune_log).
Prune(r) ==
    /\ r \in Pruned /\ ~trimmed[r]
    /\ trimmed' = [trimmed EXCEPT ![r] = TRUE]
    /\ UNCHANGED <<line, net, driverVars, houseVars, mishaps>>

\* Another node leads range r: it holds what a majority does and perhaps more,
\* has trimmed its own log its own way, and remembers nothing of the asking.
Failover(r) ==
    /\ mishaps < MaxMishaps
    /\ \E n \in 1 .. Len(line[r]) :
          /\ line' = [line EXCEPT ![r] = SubSeq(@, 1, n)]
          /\ reply' = Lost(reply, r, n)
          /\ verdict' = [s \in Ranges |-> IF s = r THEN None ELSE Lost(verdict[s], r, n)]
    /\ \E past \in {FALSE, (r \in Pruned)} : trimmed' = [trimmed EXCEPT ![r] = past]
    /\ settling' = IF r = Coord THEN {} ELSE {[s EXCEPT !.to = IF @ = r THEN None ELSE @] : s \in settling}
    /\ recovering' = (recovering /\ r # Coord)
    /\ gone' = IF r = Coord THEN {} ELSE gone
    /\ mishaps' = mishaps + 1
    /\ UNCHANGED <<net, pc, merged, known, missed, told, looked, overdue, overtaken>>

---------------------------------------------------------------------------
Init ==
    /\ line = [r \in Ranges |-> <<Untouched>>]
    /\ trimmed = [r \in Ranges |-> FALSE]
    /\ net = {} /\ pc = "idle" /\ merged \in Merges
    /\ known = {} /\ missed = {} /\ reply = None /\ told = None /\ looked = FALSE
    /\ overdue = FALSE /\ settling = {} /\ overtaken = FALSE
    /\ verdict = [r \in Ranges |-> None] /\ recovering = FALSE
    /\ gone = {} /\ mishaps = 0

Driver ==
    \/ Start \/ Finish \/ FinishParallel \/ Recover \/ Hear \/ GiveUp
    \/ \E r \in Ranges : HearPrepared(r) \/ MissPrepared(r)

Leader ==
    \/ Begin \/ Settle \/ Lookup \/ Conclude
    \/ \E kind \in {"open", "commit", "abort"} : Decide(kind)
    \/ \E s \in settling : SettleWrites(s)
    \/ \E r \in Ranges : \/ Prepare(r) \/ Bar(r)
                         \/ \E kind \in {"keep", "drop"} : ResolvePart(kind, r)

House ==
    \/ HouseAbort \/ LaggardAsk \/ HouseRecover \/ HouseDecide \/ HouseForget
    \/ \E r \in Ranges : HouseAsk(r) \/ HouseResolve(r) \/ HouseBar(r) \/ HouseHolds(r)

Around ==
    \/ Lapse
    \/ \E r \in Ranges : Write(r) \/ Replicate(r) \/ Prune(r) \/ Failover(r)

Next == Driver \/ Leader \/ House \/ Around

Spec == Init /\ [][Next]_vars

\* What goes on whether or not a driver does: the deadline, the copying of logs, the
\* cadence of housekeeping, and a settle that has read T's record coming to its write.
Upkeep ==
    \/ Lapse \/ HouseAbort \/ HouseRecover \/ HouseDecide \/ HouseForget
    \/ \E s \in settling : SettleWrites(s)
    \/ \E r \in Ranges : Replicate(r) \/ HouseAsk(r) \/ HouseResolve(r) \/ HouseBar(r) \/ HouseHolds(r)

\* The upkeep never stops while it has something to do.  No fairness is asked of the
\* driver, of an ask's arrival, or of retention.
FairSpec == Spec /\ WF_vars(Upkeep)

---------------------------------------------------------------------------
(* Properties.                                                             *)

Recs == [is : Standings, of : SUBSET Ranges]
Entries == [rec : Recs \cup {None}, intent : BOOLEAN, landed : BOOLEAN, barred : BOOLEAN,
            value : {"read", "other", "T"}, fate : {None, "kept", "dropped"}]
Places == {"idle", "opening", "preparing", "recovering", "asking", "barring", "deciding", "done"}
Replies == [says : Says, of : Ranges, at : Nat]
Settles == [to : Ranges \cup {"driver", None}, writes : [is : {"committed", "aborted"}, of : SUBSET Ranges]]

\* Every variable has the shape the code gives it: a line is never empty, a settle
\* writes a decision and housekeeping is answered with one.
TypeOK ==
    /\ line \in [Ranges -> Seq(Entries)]
    /\ \A r \in Ranges : Len(line[r]) >= 1
    /\ trimmed \in [Ranges -> BOOLEAN]
    /\ net \subseteq [kind : Kinds, range : Ranges]
    /\ pc \in Places /\ merged \in BOOLEAN /\ known \subseteq Ranges /\ missed \subseteq Ranges
    /\ reply \in Replies \cup {None}
    /\ told \in {None, "committed", "aborted", "doubt"} /\ looked \in BOOLEAN
    /\ overdue \in BOOLEAN /\ settling \subseteq Settles /\ overtaken \in BOOLEAN
    /\ verdict \in [Ranges -> {ans \in Replies : ans.says \in {"committed", "aborted"}} \cup {None}]
    /\ recovering \in BOOLEAN /\ gone \subseteq Ranges /\ mishaps \in Nat

\* T is committed in every range it wrote or in none: no range keeps T's writes
\* while another drops them (session/across.rs: a staging record is "decided by
\* status recovery and nothing else").
WholeOutcome ==
    \A r, s \in Ranges : ~(Tip(r).fate = "kept" /\ Tip(s).fate = "dropped")

\* ... however driver, housekeeping and changes of leader interleave, unless a settle
\* that read T's record before it was begun aborted it after (intents.rs, the
\* record's compare-and-set and the bars).
OneOutcome == ~overtaken => WholeOutcome

\* What the caller was told stays true (parallel.rs: answered after one round,
\* finished behind the answer): told committed, every part is held for good and,
\* unless a settle overtook T's begin, none is dropped; told aborted, none is ever
\* kept, unless so or the driver had to ask past the deadline and a lagging copy's
\* settling aborted a forgotten record.
ToldIsKept ==
    \A r \in Ranges :
        /\ told = "committed" => Kept(r).landed /\ (~overtaken => Tip(r).fate # "dropped")
        /\ told = "aborted" /\ ~looked /\ ~overtaken => Tip(r).fate # "kept"

\* T overwrites nothing its driver did not read (written_since_seen, and the
\* intent that refuses other writers): wherever an intent stands, the value under
\* it is the one T read.
NoLostUpdate ==
    \A r \in Ranges : Tip(r).intent => Tip(r).value = "read"

\* A range keeps T only once every part of T is held by a majority (D14a): until
\* then an abort is still possible.
KeptIsWhole ==
    (\E r \in Ranges : Tip(r).fate = "kept") => \A r \in Ranges : Kept(r).landed

\* However the driver stops, housekeeping finishes T: from some point on no intent
\* stands and the record is forgotten (Db::settle_across).
Finished == <>[](Tip(Coord).rec = None /\ \A r \in Ranges : ~Tip(r).intent)
=============================================================================
