-------------------------- MODULE ActiveDeliveries --------------------------
(***************************************************************************)
(* Transports that are under way, as the trackers' live lists show them:   *)
(* a row for each job of each tracker, closed by a pass of the worker when *)
(* its delivery was logged, when it is another's copy, when its trip was   *)
(* given up already or when it is too old; or given up by the driver.      *)
(*                                                                         *)
(* The live lists are snapshots in Redis and may be old. Passes and        *)
(* requests take a lease that expires, and statements that change a row    *)
(* hold it until the commit. Who may give a transport up is left out.      *)
(***************************************************************************)
EXTENDS Integers, FiniteSetsExt

CONSTANTS
    Procs,      \* processes, with a worker each
    Ids,        \* jobs, by provider and id: numbers, in that order
    Starts(_),  \* when a job started as its tracker may say, 0 for not at all
    Made,       \* deliveries that may be logged: [own, start], own 0 for another tracker's
    Near,       \* trips of one driver that begin within this time are one: 120 s
    Days,       \* active_delivery_timeout_days
    MaxTime     \* bound on the clock

VARIABLES
    rows,    \* active_delivery, by job [status, first, start]
    logged,  \* the deliveries, the deleted ones too: [own, start, stop]
    now,
    holder,  \* who holds active-delivery-lifecycle
    run,     \* by process, [pc, upserts, close, own]
    accident \* what has gone wrong: a pass, or a lease that expired before the end of one

activeVars == <<rows, logged, now, holder, run, accident>>

NoRow == [status |-> "absent", first |-> 0, start |-> 0]
Listed == UNION {{l \in [S -> UNION {Starts(k) : k \in S}] : \A k \in S : l[k] \in Starts(k)} : S \in SUBSET Ids}
NoneListed == [k \in {} |-> 0]
NoRun == [pc |-> "idle", upserts |-> NoneListed, close |-> [k \in {} |-> ""], own |-> {}]
Open(k) == rows[k].status = "in_progress"

Init ==
    /\ rows = [k \in Ids |-> NoRow] /\ logged = {} /\ now = 1
    /\ holder = 0 /\ run = [p \in Procs |-> NoRun] /\ accident = "none"

-----------------------------------------------------------------------------
\* Driver, game, cargo and both places are the same in this model.
same_trip(x, y) == x # 0 /\ y # 0 /\ x - y <= Near /\ y - x <= Near

Age(f, k) == IF f[k].start # 0 THEN f[k].start ELSE f[k].first
expired(f, k) == now - Age(f, k) >= Days

\* The mutant: a row that is listed is seen for the first time.
UpsertedAnew(f, l) ==
    [k \in Ids |->
        IF k \notin DOMAIN l THEN f[k]
        ELSE IF f[k].status = "absent" THEN [status |-> "in_progress", first |-> now, start |-> l[k]]
        ELSE [f[k] EXCEPT !.start = l[k], !.first = now]]

\* Rows as this pass sees them: those of its snapshots are there, with the content of
\* the snapshot and the status they had.
Upserted(f, l) ==
    [k \in Ids |->
        IF k \notin DOMAIN l THEN f[k]
        ELSE IF f[k].status = "absent" THEN [status |-> "in_progress", first |-> now, start |-> l[k]]
        ELSE [f[k] EXCEPT !.start = l[k]]]

\* The deliveries that are looked at: since shortly before the oldest of the rows.
Completed(f, A) == {d \in logged : d.stop >= Min({Age(f, k) : k \in A}) - Near}

\* The mutant: what was given up is not looked at, and age goes first.
VerdictByAge(f, k, done, keep) ==
    LET Same(x) == same_trip(f[k].start, x) IN
    IF expired(f, k) THEN "aborted"
    ELSE IF Cardinality({d \in done : d.own = k}) = 1 THEN "completed"
    ELSE IF Cardinality({d \in done : Same(d.start)}) = 1 \/ \E j \in keep : Same(f[j].start) THEN "duplicate"
    ELSE "keep"

\* What becomes of job k when the jobs in keep were left open before it.
Verdict(f, k, done, keep) ==
    LET Same(x) == same_trip(f[k].start, x) IN
    IF Cardinality({d \in done : d.own = k}) = 1 THEN "completed"
    ELSE IF Cardinality({d \in done : Same(d.start)}) = 1 THEN "duplicate"
    ELSE IF \E j \in Ids : f[j].status \in {"abandoned", "aborted"} /\ Same(f[j].start) THEN "aborted"
    ELSE IF expired(f, k) THEN "aborted"
    ELSE IF \E j \in keep : Same(f[j].start) THEN "duplicate"
    ELSE "keep"

\* In the order in which they were first seen. The rows that are closed in a pass are
\* not among the closed ones of this pass.
Verdicts(f) ==
    LET active == {k \in Ids : f[k].status = "in_progress"}
        done == IF active = {} THEN {} ELSE Completed(f, active)
        Before(j, k) == f[j].first < f[k].first \/ (f[j].first = f[k].first /\ j < k)
        v[k \in active] == Verdict(f, k, done, {j \in active : Before(j, k) /\ v[j] = "keep"})
    IN v

\* A row that another transaction has changed is waited for.
Untouched(p, S) ==
    \A q \in Procs \ {p} : S \intersect DOMAIN run[q].upserts = {}

\* listed: the jobs in the snapshots, which may be a day old or leave a job out.
reconcile(p, listed) ==
    LET seen == Upserted(rows, listed)
        v == Verdicts(seen)
    IN
    /\ run[p].pc = "idle" /\ holder = 0 /\ Untouched(p, DOMAIN listed)
    /\ holder' = p
    /\ run' = [run EXCEPT ![p] =
           [pc |-> "update", upserts |-> listed, own |-> {d.own : d \in logged},
            close |-> [k \in {j \in DOMAIN v : v[j] # "keep"} |-> v[k]]]]
    /\ UNCHANGED <<rows, logged, now, accident>>

Free(p) == holder' = IF holder = p THEN 0 ELSE holder

\* The mutant: rows are closed whatever has become of them since they were read.
StillOpenAlways(f, k) == TRUE
StillOpen(f, k) == f[k].status = "in_progress"

Close(p) ==
    LET seen == Upserted(rows, run[p].upserts)
        close == run[p].close
    IN
    /\ run[p].pc = "update" /\ Untouched(p, DOMAIN close)
    /\ rows' = [k \in Ids |->
           IF k \in DOMAIN close /\ StillOpen(seen, k) THEN [seen[k] EXCEPT !.status = close[k]]
           ELSE seen[k]]
    /\ run' = [run EXCEPT ![p] = NoRun] /\ Free(p)
    /\ UNCHANGED <<logged, now, accident>>

\* The transaction is rolled back, so when it waits for another one too long; a process
\* that died leaves its lease.
Ends(p) ==
    /\ run[p].pc = "update" /\ run' = [run EXCEPT ![p] = NoRun]
    /\ Free(p) \/ UNCHANGED holder
    /\ UNCHANGED <<rows, logged, now>>
Deadlock(p) == ~Untouched(p, DOMAIN run[p].close) /\ Ends(p) /\ UNCHANGED accident
Fail(p) == accident = "none" /\ accident' = "failure" /\ Ends(p)

\* By the driver or staff: the row is read and written under its lock.
abandon(k) ==
    /\ holder = 0 /\ Open(k) /\ Untouched(0, {k})
    /\ rows' = [rows EXCEPT ![k].status = "abandoned"]
    /\ UNCHANGED <<logged, now, holder, run, accident>>

LeaseExpires ==
    /\ holder # 0 /\ holder' = 0
    /\ \/ run[holder].pc = "idle" /\ UNCHANGED accident
       \/ run[holder].pc # "idle" /\ accident = "none" /\ accident' = "expiry"
    /\ UNCHANGED <<rows, logged, now, run>>

-----------------------------------------------------------------------------
(* Deliveries that are logged, and the clock.                              *)
Deliver(d) ==
    /\ d.start <= now /\ \A e \in logged : [own |-> e.own, start |-> e.start] # d
    /\ logged' = logged \union {[own |-> d.own, start |-> d.start, stop |-> now]}
    /\ UNCHANGED <<rows, now, holder, run, accident>>
Tick ==
    /\ now < MaxTime /\ now' = now + 1
    /\ UNCHANGED <<rows, logged, holder, run, accident>>

Pass(p) == \E listed \in Listed : (\A k \in DOMAIN listed : listed[k] <= now) /\ reconcile(p, listed)
Next ==
    \/ \E p \in Procs : Pass(p) \/ Close(p) \/ Deadlock(p) \/ Fail(p)
    \/ \E k \in Ids : abandon(k)
    \/ \E d \in Made : Deliver(d)
    \/ LeaseExpires \/ Tick

\* Some process makes a pass every minute, and not all of them wait in vain.
ActiveFairness ==
    /\ WF_activeVars(\E p \in Procs : Pass(p))
    /\ SF_activeVars(\E p \in Procs : Close(p)) /\ \A p \in Procs : WF_activeVars(Deadlock(p))
    /\ WF_activeVars(LeaseExpires) /\ WF_activeVars(Tick)
Spec == Init /\ [][Next]_activeVars /\ ActiveFairness

-----------------------------------------------------------------------------
Statuses == {"in_progress", "abandoned", "aborted", "duplicate", "completed"}

\* Every variable has its type.
ActiveTyped ==
    /\ rows \in [Ids -> {NoRow} \union [status : Statuses, first : 1..MaxTime, start : Nat]]
    /\ \A k \in Ids : rows[k].start \in Starts(k) \union {0}
    /\ now \in 1..MaxTime /\ holder \in Procs \union {0}
    /\ \A p \in Procs : run[p].upserts \in Listed /\ DOMAIN run[p].close \subseteq Ids

\* A trip is shown once, and not again when it was given up, under whatever id a
\* tracker lists it, unless two passes overlapped. (functions/active_deliveries.py,
\* reconcile; docs/active-deliveries.md: source refreshes cannot reopen it.)
ShownOnce ==
    accident # "expiry" => \A j, k \in Ids :
        (j # k /\ Open(k) /\ rows[j].status \in {"in_progress", "abandoned"}) => ~same_trip(rows[j].start, rows[k].start)

\* What was logged before a pass read it is not closed by it as given up or as a copy, if
\* the tracker knows when it started. (reconcile; the exact id goes first.)
MadeIsCompleted ==
    \A p \in Procs : LET seen == Upserted(rows, run[p].upserts) IN
        \A k \in DOMAIN run[p].close :
            (StillOpen(seen, k) /\ seen[k].start # 0 /\ k \in run[p].own) => run[p].close[k] = "completed"

\* A row that is closed stays as it is: no snapshot opens it again, and no pass that
\* was late says something else of it. (reconcile and abandon.)
ClosedStays == \A k \in Ids : rows[k].status \notin {"absent", "in_progress"} => rows'[k].status = rows[k].status
ClosedStaysClosed == [][ClosedStays]_activeVars

\* Every transport ends, also one that its tracker never speaks of again.
\* (active_deliveries.py, expired.)
Lasting(k) == Open(k) /\ rows[k].first <= MaxTime - Days
TransportsEnd == \A k \in Ids : Lasting(k) ~> ~Open(k)
=============================================================================
