------------------------------ MODULE Challenge ------------------------------
(***************************************************************************)
(* One driver challenge: the deliveries that count for it, and the rows of *)
(* challenge_completed, which are points in a driver's account.            *)
(*                                                                         *)
(* Four kinds of requests write them: a report of a delivery, the two by   *)
(* which staff add and remove a delivery, and the edit of the challenge.   *)
(* Each reads what it needs in one transaction and writes in another, so   *)
(* that the others may act in between.                                     *)
(*                                                                         *)
(* Which deliveries meet the job requirements is left open: a delivery may *)
(* be accepted or not. Deleting the whole challenge is left out. Between   *)
(* the rows a request writes for several drivers it sends notifications,   *)
(* which are taken to commit (they do for a driver who reads them in the   *)
(* Drivers Hub).                                                           *)
(***************************************************************************)
EXTENDS Naturals, Sequences, FiniteSetsExt

CONSTANTS
    Reqs,      \* connections
    Users,     \* drivers
    Driver,    \* [1..MaxLogs -> Users]: who made the delivery with this logid
    Distance,  \* [1..MaxLogs -> Nat]
    Types,     \* which types of challenges to look at
    Counts,    \* values of delivery_count
    Rewards,   \* values of reward_points
    MaxLogs,   \* bound on the deliveries
    MaxEdits   \* bound on the requests of staff

ASSUME ChallengeConstants ==
    /\ IsFiniteSet(Reqs) /\ IsFiniteSet(Users)
    /\ MaxLogs \in Nat
    /\ Driver \in [1..MaxLogs -> Users]
    /\ Distance \in [1..MaxLogs -> Nat]
    /\ Types \subseteq 1..5
    /\ Counts \subseteq Nat \ {0}
    /\ Rewards \subseteq Nat
    /\ MaxEdits \in Nat

VARIABLES
    challenge_type,       \* 1 one-time, 2 company, 3 recurring; by distance: 4, 5
    delivery_count,       \* deliveries, or distance, to complete it
    reward_points,
    challenge_record,     \* its rows [log, time], which numbers tell apart
    challenge_completed,  \* by driver, the points of each row, oldest first
    logged,               \* the last logid, and the time
    gone,                 \* deleted deliveries
    req,                  \* the requests
    edits,                \* how many requests of staff there were
    overlap               \* history: what ran at the same time

terms == <<delivery_count, reward_points>>
dlog == <<logged, gone>>
vars == <<challenge_type, terms, challenge_record, challenge_completed, dlog,
          req, edits, overlap>>

Personal == challenge_type \in {1, 3, 4}
ByDistance == challenge_type \in {4, 5}

\* who: drivers still to be judged; due: what is to be written, by driver, which
\* is a number of rows or a share.
Nothing == [u \in {} |-> 0]
Idle == [pc |-> "idle", op |-> "none", log |-> 0, old |-> 0, need |-> 0,
         reward |-> 0, who |-> {}, due |-> Nothing]

Init ==
    /\ challenge_type \in Types
    /\ delivery_count \in Counts
    /\ reward_points \in Rewards
    /\ challenge_record = Nothing
    /\ challenge_completed = [u \in Users |-> <<>>]
    /\ logged = 0
    /\ gone = {}
    /\ req = [r \in Reqs |-> Idle]
    /\ edits = 0
    /\ overlap = "none"

-----------------------------------------------------------------------------
(* What the queries return.                                                *)

RecordsOf(U) ==
    {i \in DOMAIN challenge_record : Driver[challenge_record[i].log] \in U}

\* A deleted delivery still counts as one, but its distance does not.
Weight(i) ==
    LET l == challenge_record[i].log IN
    IF ~ ByDistance THEN 1 ELSE IF l \in gone THEN 0 ELSE Distance[l]

CountOf(U) == MapThenSumSet(Weight, RecordsOf(U))
Count(u) == CountOf({u})
Total == CountOf(Users)

Rows(u) == Len(challenge_completed[u])
NoRows == \A u \in Users : Rows(u) = 0

\* The places an ORDER BY timestamp LIMIT n may return; ties come in any order.
FirstRecords(n) ==
    {S \in SUBSET DOMAIN challenge_record :
        /\ Cardinality(S) = Min({n, Cardinality(DOMAIN challenge_record)})
        /\ \A i \in S : \A j \in DOMAIN challenge_record \ S :
            challenge_record[i].time <= challenge_record[j].time}

\* The drivers' deliveries among the first n.
DeliveryShares(n) ==
    {[u \in {v \in Users : RecordsOf({v}) \intersect S # {}} |->
        Cardinality(RecordsOf({u}) \intersect S)] : S \in FirstRecords(n)}

\* The mutant: the search does not stop when n is reached.
DistanceSharesOfAll(n) ==
    LET Active == {u \in Users : Count(u) > 0}
        Over(U) == IF CountOf(U) > n THEN CountOf(U) - n ELSE 0
    IN {[u \in Active |-> IF u = last THEN Count(u) - Over(Active) ELSE Count(u)] :
           last \in Active}

\* The drivers' distances in the order of the groups, which is any, until n is
\* reached; what goes beyond n is taken from the last.
DistanceShares(n) ==
    LET Active == {u \in Users : Count(u) > 0}
        Over(U) == IF CountOf(U) > n THEN CountOf(U) - n ELSE 0
        Ends(U, u) ==
            /\ u \in U
            /\ CountOf(U \ {u}) < n
            /\ CountOf(U) >= n \/ U = Active
        Divided(U, last) ==
            [u \in U |-> IF u = last THEN Count(u) - Over(U) ELSE Count(u)]
    IN {Divided(p[1], p[2]) : p \in {q \in (SUBSET Active) \X Active : Ends(q[1], q[2])}}

usercnt(n) ==
    LET S == IF ByDistance THEN DistanceShares(n) ELSE DeliveryShares(n)
    IN IF S = {} THEN {Nothing} ELSE S

\* Python's round(a / b): half to even.
RoundDiv(a, b) ==
    LET q == a \div b  twice == 2 * (a % b)
    IN CASE twice < b -> q
         [] twice > b -> q + 1
         [] OTHER -> q + (q % 2)

-----------------------------------------------------------------------------
(* Requests arrive.                                                        *)

Quiet == \A r \in Reqs : req[r] = Idle

Overlaps(op) ==
    LET Running == {req[r].op : r \in Reqs} \ {"none"} IN
    overlap' = IF Running = {} THEN overlap
               ELSE IF overlap = "any"
                       \/ ~ (Running \union {op} \subseteq {"report", "put"})
                    THEN "any" ELSE "adds"

Begin(r, op, l, pc, need, reward) ==
    /\ req[r] = Idle
    /\ Overlaps(op)
    /\ req' = [req EXCEPT ![r] =
                 [Idle EXCEPT !.pc = pc, !.op = op, !.log = l, !.need = need,
                              !.reward = reward, !.old = delivery_count]]
    /\ UNCHANGED <<challenge_type, terms, challenge_record, challenge_completed, gone>>

\* A delivery is reported, and meets the requirements.
process_challenge(r) ==
    /\ logged < MaxLogs
    /\ logged' = logged + 1
    /\ Begin(r, "report", logged + 1, "record", delivery_count, reward_points)
    /\ UNCHANGED edits

\* It does not, or it was imported later.
LogOther ==
    /\ logged < MaxLogs
    /\ logged' = logged + 1
    /\ UNCHANGED <<challenge_type, terms, challenge_record, challenge_completed,
                   gone, req, edits, overlap>>

Edit == edits < MaxEdits /\ edits' = edits + 1

RecordsWith(l) == {i \in DOMAIN challenge_record : challenge_record[i].log = l}

put_delivery(r, l) ==
    /\ Edit
    /\ l \in 1..logged \ gone
    /\ RecordsWith(l) = {}
    /\ Begin(r, "put", l, "record", delivery_count, reward_points)
    /\ UNCHANGED logged

delete_delivery(r, l) ==
    /\ Edit
    /\ RecordsWith(l) # {}
    /\ Begin(r, "remove", l, "remove", delivery_count, reward_points)
    /\ UNCHANGED logged

patch_challenge(r, need, reward) ==
    /\ Edit
    /\ Begin(r, "patch", 0, "update", need, reward)
    /\ UNCHANGED logged

\* delete_dlog leaves the records of the challenge alone.
delete_dlog(l) ==
    /\ Edit
    /\ l \in 1..logged \ gone
    /\ gone' = gone \union {l}
    /\ UNCHANGED <<challenge_type, terms, challenge_record, challenge_completed,
                   logged, req, overlap>>

-----------------------------------------------------------------------------
(* The writes that come first, each with its commit.                       *)

Goto(r, pc) == req' = [req EXCEPT ![r].pc = pc]
Judged(r, U) == req' = [req EXCEPT ![r].pc = "judge", ![r].who = U]

\* By a report at the current time, by staff at the time of the delivery.
Record(r) ==
    LET l == req[r].log
        time == IF req[r].op = "put" THEN l ELSE logged
    IN
    /\ req[r].pc = "record"
    /\ LET new == Min((1..Cardinality(DOMAIN challenge_record) + 1) \ DOMAIN challenge_record)
       IN challenge_record' =
              [i \in DOMAIN challenge_record \union {new} |->
                  IF i = new THEN [log |-> l, time |-> time] ELSE challenge_record[i]]
    /\ Judged(r, {Driver[l]})
    /\ UNCHANGED <<challenge_type, terms, challenge_completed, dlog, edits, overlap>>

Remove(r) ==
    /\ req[r].pc = "remove"
    /\ challenge_record' = [i \in DOMAIN challenge_record \ RecordsWith(req[r].log) |->
                               challenge_record[i]]
    /\ Judged(r, {Driver[req[r].log]})
    /\ UNCHANGED <<challenge_type, terms, challenge_completed, dlog, edits, overlap>>

Update(r) ==
    /\ req[r].pc = "update"
    /\ delivery_count' = req[r].need
    /\ reward_points' = req[r].reward
    /\ IF Personal THEN Goto(r, "points") ELSE Judged(r, {})
    /\ UNCHANGED <<challenge_type, challenge_record, challenge_completed, dlog,
                   edits, overlap>>

\* The mutant: the rows that are there keep their points.
PointsKept(r) ==
    /\ req[r].pc = "points"
    /\ Goto(r, "list")
    /\ UNCHANGED <<challenge_type, terms, challenge_record, challenge_completed,
                   dlog, edits, overlap>>

Points(r) ==
    /\ req[r].pc = "points"
    /\ challenge_completed' =
           [u \in Users |-> [i \in 1..Rows(u) |-> req[r].reward]]
    /\ Goto(r, "list")
    /\ UNCHANGED <<challenge_type, terms, challenge_record, dlog, edits, overlap>>

\* The drivers a changed delivery_count may concern.
Concerned(r) ==
    LET low == Min({req[r].old, req[r].need})
        high == Max({req[r].old, req[r].need})
    IN IF challenge_type = 3
       THEN {u \in Users : req[r].old # req[r].need /\ RecordsOf({u}) # {}}
       ELSE {u \in Users : low <= Count(u) /\ Count(u) < high}

Judging(r, U) ==
    req' = [req EXCEPT ![r] = IF U = {} THEN Idle
                              ELSE [@ EXCEPT !.pc = "judge", !.who = U]]

List(r) ==
    /\ req[r].pc = "list"
    /\ Judging(r, Concerned(r))
    /\ UNCHANGED <<challenge_type, terms, challenge_record, challenge_completed,
                   dlog, edits, overlap>>

-----------------------------------------------------------------------------
(* Personal challenges: what a driver's rows should be, and the change.    *)

\* The mutant: the deliveries beyond the next row are not counted.
OwedOnce(r, u) == IF Count(u) >= req[r].need THEN 1 ELSE 0

\* The rows that u's deliveries are worth. The edit of a one-time challenge has
\* counted them already.
Owed(r, u) ==
    CASE challenge_type = 3 -> Count(u) \div req[r].need
      [] challenge_type # 3 /\ req[r].op = "patch" ->
             IF req[r].need < req[r].old THEN 1 ELSE 0
      [] OTHER -> IF Count(u) >= req[r].need THEN 1 ELSE 0

AtMostOne(n) == Min({n, 1})

\* Of a one-time challenge it matters only whether there is a row.
Held(u) == IF challenge_type = 3 THEN Rows(u) ELSE AtMostOne(Rows(u))

MoreBy(r, u) == IF Owed(r, u) > Held(u) THEN Owed(r, u) - Held(u) ELSE 0
FewerBy(r, u) == IF Owed(r, u) < Held(u) THEN Held(u) - Owed(r, u) ELSE 0

\* A report only adds, a removal only takes away, and both one row at most; an
\* edit adds if it asks for less and takes away if it asks for more.
Adds(r, u) ==
    CASE req[r].op \in {"report", "put"} -> AtMostOne(MoreBy(r, u))
      [] req[r].op = "patch" /\ req[r].need < req[r].old -> MoreBy(r, u)
      [] OTHER -> 0

\* The mutant: the rows are left when a delivery is removed.
TakesNever(r, u) == 0

Takes(r, u) ==
    CASE req[r].op = "remove" -> AtMostOne(FewerBy(r, u))
      [] req[r].op = "patch" /\ req[r].need > req[r].old -> FewerBy(r, u)
      [] OTHER -> 0

Due(r, pc, due) == req' = [req EXCEPT ![r].pc = pc, ![r].due = due]

JudgePersonal(r) ==
    /\ Personal
    /\ req[r].pc = "judge"
    /\ \E u \in req[r].who :
         \/ /\ Adds(r, u) = 0 /\ Takes(r, u) = 0
            /\ Judging(r, req[r].who \ {u})
         \/ Adds(r, u) > 0 /\ Due(r, "add", [v \in {u} |-> Adds(r, u)])
         \/ Takes(r, u) > 0 /\ Due(r, "take", [v \in {u} |-> Takes(r, u)])
    /\ UNCHANGED <<challenge_type, terms, challenge_record, challenge_completed,
                   dlog, edits, overlap>>

Add(r) ==
    /\ req[r].pc = "add"
    /\ \E u \in DOMAIN req[r].due :
         /\ challenge_completed' = [challenge_completed EXCEPT
                ![u] = @ \o [i \in 1..req[r].due[u] |-> req[r].reward]]
         /\ Judging(r, req[r].who \ {u})
    /\ UNCHANGED <<challenge_type, terms, challenge_record, dlog, edits, overlap>>

\* A recurring challenge loses its latest rows, another one all of them.
Take(r) ==
    /\ req[r].pc = "take"
    /\ \E u \in DOMAIN req[r].due :
         /\ challenge_completed' = [challenge_completed EXCEPT
                ![u] = IF challenge_type # 3 \/ Len(@) < req[r].due[u] THEN <<>>
                       ELSE SubSeq(@, 1, Len(@) - req[r].due[u])]
         /\ Judging(r, req[r].who \ {u})
    /\ UNCHANGED <<challenge_type, terms, challenge_record, dlog, edits, overlap>>

-----------------------------------------------------------------------------
(* Company challenges: everybody's shares at once.                         *)

\* The rows to insert, one by driver; none at all ends the request.
Shared(r) ==
    \E s \in usercnt(req[r].need) :
        req' = [req EXCEPT ![r] = IF DOMAIN s = {} THEN Idle
                                  ELSE [@ EXCEPT !.pc = "share", !.due = s]]

End(r) == req' = [req EXCEPT ![r] = Idle]

JudgeCompany(r) ==
    /\ ~ Personal
    /\ req[r].pc = "judge"
    /\ LET enough == Total >= req[r].need IN
       CASE req[r].op \in {"report", "put"} ->
                IF enough /\ NoRows THEN Shared(r) ELSE End(r)
         [] req[r].op = "remove" ->
                IF ~ enough THEN Goto(r, "clear")
                ELSE IF NoRows THEN End(r) ELSE Goto(r, "replace")
         [] req[r].op = "patch" ->
                Goto(r, IF NoRows THEN "shares" ELSE "replace")
    /\ UNCHANGED <<challenge_type, terms, challenge_record, challenge_completed,
                   dlog, edits, overlap>>

\* The DELETE and its commit; to "replace" the rows new ones are inserted.
Clear(r) ==
    /\ req[r].pc \in {"clear", "replace"}
    /\ challenge_completed' = [u \in Users |-> <<>>]
    /\ IF req[r].pc = "clear" THEN End(r) ELSE Goto(r, "shares")
    /\ UNCHANGED <<challenge_type, terms, challenge_record, dlog, edits, overlap>>

\* An edit looks again whether there is enough, a removal does not.
Shares(r) ==
    /\ req[r].pc = "shares"
    /\ IF req[r].op = "patch" /\ Total < req[r].need THEN End(r) ELSE Shared(r)
    /\ UNCHANGED <<challenge_type, terms, challenge_record, challenge_completed,
                   dlog, edits, overlap>>

Share(r) ==
    /\ req[r].pc = "share"
    /\ \E u \in DOMAIN req[r].due :
         LET points == RoundDiv(req[r].reward * req[r].due[u], req[r].need)
             left == [v \in DOMAIN req[r].due \ {u} |-> req[r].due[v]]
         IN
         /\ challenge_completed' =
                [challenge_completed EXCEPT ![u] = Append(@, points)]
         /\ IF DOMAIN left = {} THEN End(r)
            ELSE req' = [req EXCEPT ![r].due = left]
    /\ UNCHANGED <<challenge_type, terms, challenge_record, dlog, edits, overlap>>

-----------------------------------------------------------------------------
Arrive(r) ==
    \/ process_challenge(r)
    \/ \E l \in 1..MaxLogs : put_delivery(r, l) \/ delete_delivery(r, l)
    \/ \E need \in Counts, reward \in Rewards : patch_challenge(r, need, reward)

Proceed(r) ==
    \/ Record(r) \/ Remove(r) \/ Update(r) \/ Points(r) \/ List(r)
    \/ JudgePersonal(r) \/ Add(r) \/ Take(r)
    \/ JudgeCompany(r) \/ Clear(r) \/ Shares(r) \/ Share(r)

Next ==
    \/ \E r \in Reqs : Arrive(r) \/ Proceed(r)
    \/ LogOther
    \/ \E l \in 1..MaxLogs : delete_dlog(l)

Spec == Init /\ [][Next]_vars

-----------------------------------------------------------------------------
(* Properties.                                                             *)

Steps == {"idle", "record", "remove", "update", "points", "list", "judge", "add",
          "take", "clear", "replace", "shares", "share"}

\* Every variable has its type; what is recorded is a delivery that was logged,
\* and nobody's share is nothing.
TypeOK ==
    /\ challenge_type \in Types
    /\ delivery_count \in Counts
    /\ reward_points \in Rewards
    /\ IsFiniteSet(DOMAIN challenge_record)
    /\ challenge_record \in [DOMAIN challenge_record -> [log : 1..logged, time : 1..logged]]
    /\ challenge_completed \in [Users -> Seq(Nat)]
    /\ logged \in 0..MaxLogs
    /\ gone \subseteq 1..logged
    /\ \A r \in Reqs :
         /\ req[r].pc \in Steps
         /\ req[r].op \in {"none", "report", "put", "remove", "patch"}
         /\ req[r].log \in 0..logged
         /\ req[r].who \subseteq Users
         /\ \A u \in DOMAIN req[r].due : u \in Users /\ req[r].due[u] > 0
    /\ edits \in 0..MaxEdits
    /\ overlap \in {"none", "adds", "any"}

\* Nothing in progress, and no delivery of which the distance was counted has
\* been deleted since.
Settled == Quiet /\ (ByDistance => gone = {})

\* What the deliveries are worth, in rows; a company challenge has a row for
\* somebody or for nobody.
Worth(u) ==
    IF challenge_type = 3 THEN Count(u) \div delivery_count
    ELSE IF Count(u) >= delivery_count THEN 1 ELSE 0

\* Reports and additions that overlap complete nothing too late: one of the
\* requests has seen the last delivery that was needed.
NothingEarnedIsMissed ==
    Settled /\ overlap # "any" =>
        IF Personal THEN \A u \in Users : Rows(u) >= Worth(u)
        ELSE NoRows => Total < delivery_count

First(u) == IF Rows(u) = 0 THEN 0 ELSE challenge_completed[u][1]
Prize == MapThenSumSet(First, Users)

\* Requests that come one after the other leave a challenge completed exactly if its
\* deliveries, as they are now, are enough for what it asks now, whichever were added,
\* removed or deleted and however it was edited. A personal row is worth what the
\* challenge gives now, and the shares of a company challenge, of which a driver has
\* one, add up to it but for the rounding of each, by half a point at most.
CompletedAsEarned ==
    Settled /\ overlap = "none" =>
        IF Personal
        THEN \A u \in Users :
                /\ Rows(u) = Worth(u)
                /\ \A i \in 1..Rows(u) : challenge_completed[u][i] = reward_points
        ELSE LET sharing == {u \in Users : Rows(u) > 0} IN
             /\ sharing = {} <=> Total < delivery_count
             /\ sharing # {} =>
                 /\ \A u \in sharing : Rows(u) = 1
                 /\ 2 * Prize <= 2 * reward_points + Cardinality(sharing)
                 /\ 2 * reward_points <= 2 * Prize + Cardinality(sharing)
=============================================================================
