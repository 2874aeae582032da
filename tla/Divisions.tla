------------------------------ MODULE Divisions ------------------------------
(***************************************************************************)
(* Divisions: drivers ask that a delivery counts for a division, staff     *)
(* decide, and the statistics join the decisions with the deliveries there *)
(* are and with the drivers who have the role of the division now.         *)
(*                                                                         *)
(* The table has no key: that a delivery is not there yet is read in one   *)
(* step and the row inserted in another. The statistics cut the sum of the *)
(* distances to whole kilometres (and likewise those of fuel and profit,   *)
(* which are left out) and make points of the number of deliveries or of   *)
(* the sum: of the cut one for a division, of the exact one for a driver.  *)
(***************************************************************************)
EXTENDS Integers, FiniteSetsExt

CONSTANTS
    Reqs, Drivers,
    Logs,
    Driver,      \* who drove a delivery
    Distance,    \* of a delivery, in halves of a kilometre
    Points,      \* by division: mode "static" or "ratio", and value, of a ratio in halves
    Admins,      \* drivers who may ask for any division, 0 being an unknown one
    DivisionIds,
    MaxRows, MaxReqs    \* bounds

VARIABLES
    dlog,        \* the deliveries that are not deleted
    roles,       \* by driver, the divisions whose roles they have
    division,    \* the rows of the table, in the order of their insertion
    req, reqs,
    twice        \* history: deliveries for which requests overlapped

vars == <<dlog, roles, division, req, reqs, twice>>

pending == 0
accepted == 1
declined == 2
\* The number is not checked; nothing is done for another than these.
Statuses == {pending, accepted, declined, 3}
Idle == [pc |-> "idle", logid |-> 0, division |-> 0, status |-> 0]

Init ==
    /\ dlog = Logs
    /\ roles \in [Drivers -> SUBSET DivisionIds]
    /\ division = {}
    /\ req = [r \in Reqs |-> Idle] /\ reqs = 0
    /\ twice = {}

-----------------------------------------------------------------------------
Rows(l) == {row \in division : row.logid = l}

Begin(r, job) ==
    /\ reqs < MaxReqs /\ req[r].pc = "idle"
    /\ reqs' = reqs + 1
    /\ req' = [req EXCEPT ![r] = job]
    /\ UNCHANGED <<dlog, roles, division>>

\* The mutant: a declined request may be made again.
NotRequestedYetOrDeclined(l) == \A row \in Rows(l) : row.status = declined
\* Pending, validated or denied: another request is refused.
NotRequestedYet(l) == Rows(l) = {}

\* By the driver of the delivery, for a division the driver has joined.
post_dlog_division(r, l, d) ==
    /\ l \in dlog /\ NotRequestedYet(l) 
    /\ d \in roles[Driver[l]] \/ Driver[l] \in Admins
    /\ Begin(r, [pc |-> "insert", logid |-> l, division |-> d, status |-> pending])
    /\ twice' = IF \E q \in Reqs \ {r} : req[q].pc = "insert" /\ req[q].logid = l
                THEN twice \union {l} ELSE twice

Insert(r) ==
    /\ req[r].pc = "insert" /\ Cardinality(division) < MaxRows
    /\ division' = division \union
            {[n |-> Cardinality(division) + 1, logid |-> req[r].logid,
              division |-> req[r].division, status |-> pending]}
    /\ req' = [req EXCEPT ![r] = Idle]
    /\ UNCHANGED <<dlog, roles, reqs, twice>>

\* A division that is not known is the one of the row; all rows are written.
patch_dlog_division(r, l, d, status) ==
    /\ Rows(l) # {}
    /\ \E old \in Rows(l) :
        Begin(r, [pc |-> "update", logid |-> l, status |-> status,
                  division |-> IF d \in DivisionIds THEN d ELSE old.division])
    /\ UNCHANGED twice

Update(r) ==
    /\ req[r].pc = "update"
    /\ division' = {IF row.logid = req[r].logid
                    THEN [row EXCEPT !.division = req[r].division, !.status = req[r].status]
                    ELSE row : row \in division}
    /\ req' = [req EXCEPT ![r] = Idle]
    /\ UNCHANGED <<dlog, roles, reqs, twice>>

Cut(r) == req[r].pc # "idle" /\ req' = [req EXCEPT ![r] = Idle]
          /\ UNCHANGED <<dlog, roles, division, reqs, twice>>

\* External: a delivery is deleted, and its row here is left; a driver joins or
\* leaves a division.
delete_dlog(l) ==
    /\ l \in dlog /\ dlog' = dlog \ {l}
    /\ UNCHANGED <<roles, division, req, reqs, twice>>

patch_roles(u, d) ==
    /\ reqs < MaxReqs /\ reqs' = reqs + 1
    /\ roles' = [roles EXCEPT ![u] = IF d \in @ THEN @ \ {d} ELSE @ \union {d}]
    /\ UNCHANGED <<dlog, division, req, twice>>

Next ==
    \/ \E r \in Reqs :
        \/ \E l \in Logs, d \in DivisionIds \union {0} : post_dlog_division(r, l, d)
        \/ \E l \in Logs, d \in DivisionIds \union {0}, status \in Statuses :
            patch_dlog_division(r, l, d, status)
        \/ Insert(r) \/ Update(r) \/ Cut(r)
    \/ \E l \in Logs : delete_dlog(l)
    \/ \E u \in Drivers, d \in DivisionIds : patch_roles(u, d)

Spec == Init /\ [][Next]_vars

-----------------------------------------------------------------------------
(* Statistics.                                                             *)

Counted(d, include_pending) ==
    {row \in division : /\ row.division = d /\ row.logid \in dlog
                        /\ row.status = accepted \/ (include_pending /\ row.status = pending)}
Driven(rows) == MapThenSumSet(LAMBDA row : Distance[row.logid], rows)

\* Python's round(n / 4): half to even.
Rounded(n) ==
    LET q == n \div 4 IN
    IF n % 4 < 2 \/ (n % 4 = 2 /\ q % 2 = 0) THEN q ELSE q + 1

\* The points of rows with so many halves of a kilometre.
PointsFor(d, rows, halves) ==
    IF Points[d].mode = "static" THEN Cardinality(rows) * Points[d].value
    ELSE Rounded(halves * Points[d].value)

\* Distances are cut before they are points here, and not below.
get_divisions_statistics(d, include_pending) ==
    LET rows == Counted(d, include_pending)
        km == Driven(rows) \div 2
    IN [jobs |-> Cardinality(rows), distance |-> km, points |-> PointsFor(d, rows, 2 * km)]

\* By driver: those with deliveries, if they have the role or the previous ones are
\* asked for as well, and those with the role and none.
get_divisions_activity(d, include_previous_drivers, include_pending) ==
    LET rows(u) == {row \in Counted(d, include_pending) : Driver[row.logid] = u}
        Listed == {u \in Drivers : d \in roles[u] \/ (include_previous_drivers /\ rows(u) # {})}
    IN [u \in Listed |-> [jobs |-> Cardinality(rows(u)), distance |-> Driven(rows(u)) \div 2,
                          points |-> PointsFor(d, rows(u), Driven(rows(u)))]]

Total(activity, field) == MapThenSumSet(LAMBDA u : activity[u][field], DOMAIN activity)

-----------------------------------------------------------------------------
\* Every variable has its type.
TypeOK ==
    /\ division \subseteq [n : 1..MaxRows, logid : Logs, division : DivisionIds \union {0}, status : Statuses]
    /\ \A row, other \in division : row.n = other.n => row = other
    /\ dlog \subseteq Logs /\ reqs \in 0..MaxReqs

\* Unless requests for it overlap, a delivery counts for one division and once,
\* whatever staff decide about it and in which order.
CountedOnce ==
    \A l \in Logs \ twice : Cardinality(Rows(l)) <= 1

Abs(n) == IF n < 0 THEN -n ELSE n

\* The list of the drivers of a division, with those who left it, adds up to the
\* statistics of the division: the deliveries exactly, and so do points by the number of
\* deliveries; distances but for less than one kilometre for each driver; and points by
\* distance but for half a point for each driver and for the division, and the points
\* of a kilometre, as sums are cut and points rounded one by one (division.py:87, 182).
ActivityAddsUp ==
    \A d \in DivisionIds, include_pending \in BOOLEAN :
        LET all == get_divisions_activity(d, TRUE, include_pending)
            now == get_divisions_activity(d, FALSE, include_pending)
            stats == get_divisions_statistics(d, include_pending)
            n == Cardinality(DOMAIN all)
        IN /\ Total(all, "jobs") = stats.jobs
           /\ stats.distance - Total(all, "distance") \in 0 .. IF n = 0 THEN 0 ELSE n - 1
           /\ LET difference == Abs(Total(all, "points") - stats.points) IN
              IF Points[d].mode = "static" THEN difference = 0
              ELSE 2 * difference <= n + 1 + Points[d].value
           /\ DOMAIN now \subseteq DOMAIN all /\ \A u \in DOMAIN now : now[u] = all[u]
=============================================================================
