----------------------------- MODULE DlogStats ------------------------------
(***************************************************************************)
(* The statistics of the deliveries (dlog_stats) and the worker that keeps *)
(* them: it follows the logids from a cursor in the settings and adds what *)
(* each delivery contains, one row and one commit at a time, for its       *)
(* driver and for the company; then it moves the cursor.                   *)
(*                                                                         *)
(* Every process of the server starts the worker, and they agree by a key  *)
(* in Redis which one goes on. A delivery gets its logid when it is        *)
(* inserted and is seen when it is committed, so that it may appear behind *)
(* the cursor; rows may be deleted, be given to a driver later or be       *)
(* unreadable. The process may die, the whole service may be started       *)
(* again, with or without a rebuild of the statistics.                     *)
(*                                                                         *)
(* The names of the items and the sums of fines and tolls are left out:    *)
(* they are written beside the count. The other workers that share the key *)
(* in Redis are left out too.                                              *)
(***************************************************************************)
EXTENDS Integers, FiniteSetsExt

CONSTANTS
    Procs,     \* processes of the server
    Drivers,
    Keys,
    Contents,
    MaxLog,    \* bound on the logids
    MaxStops   \* bound on failures, ends of processes and starts

None == "none"
Gone == "gone"

ASSUME DlogStatsConstants ==
    /\ Drivers \subseteq Nat
    /\ Contents \subseteq [Keys -> Nat] /\ Contents # {}
    /\ None \notin Procs /\ Gone \notin Procs
    /\ MaxLog \in Nat
    /\ MaxStops \in Nat

VARIABLES
    dlog,              \* the committed deliveries, by logid
    importing,         \* those inserted and not committed
    lastid,            \* the AUTO_INCREMENT of dlog
    dlog_stats,        \* the count of each row, 0 if there is none
    dlog_stats_up_to,  \* the cursor, in the settings
    pid,               \* the key multiprocess-pid in Redis
    worker,            \* by process, its worker
    settled,           \* history: the deliveries counted to the end
    stops

deliveries == <<dlog, importing, lastid>>
vars == <<deliveries, dlog_stats, dlog_stats_up_to, pid, worker, settled, stops>>

NoDelivery == [l \in {} |-> 0]
Company == -1
Cells == (Drivers \union {Company}) \X Keys

With(f, l, d) == [i \in DOMAIN f \union {l} |-> IF i = l THEN d ELSE f[i]]
Without(f, l) == [i \in DOMAIN f \ {l} |-> f[i]]

\* What a delivery adds to a row: one of its driver or of the company. One of an
\* unknown driver has the id of the company and counts once.
Amount(d, c) == IF c[1] \in {d.userid, Company} THEN d.items[c[2]] ELSE 0
Rows(d) == {c \in Cells : Amount(d, c) > 0}

\* A delivery without anything in it stands for one that cannot be read.
Readable(l) == Rows(dlog[l]) # {}

\* job: the delivery as the worker read it; part: its rows that are still to be
\* written.
NoJob == [userid |-> -1, items |-> [k \in Keys |-> 0]]
Fresh == [pc |-> "look", first |-> TRUE, logid |-> 0, max |-> 0, job |-> NoJob,
          part |-> {}]

\* What deliveries that are being counted have added so far.
Counting == {p \in Procs : worker[p].pc = "count"}
Added(c) ==
    MapThenSumSet(LAMBDA p : IF c \in worker[p].part THEN 0 ELSE Amount(worker[p].job, c), Counting)

\* The refinement mapping: the rows without what is counted in part.
Whole == IF Counting = {} THEN dlog_stats ELSE [c \in Cells |-> dlog_stats[c] - Added(c)]
Tally == INSTANCE StatsTally WITH tally <- Whole

\* No delivery yet. The cursor of a new installation is 1, so that it never counts
\* its first delivery; a rebuild of the empty statistics sets it to 0.
Init ==
    /\ dlog = NoDelivery
    /\ importing = NoDelivery
    /\ lastid = 0
    /\ dlog_stats = [c \in Cells |-> 0]
    /\ dlog_stats_up_to \in {0, 1}
    /\ pid = None
    /\ worker = [p \in Procs |-> Fresh]
    /\ settled = NoDelivery
    /\ stops = 0

-----------------------------------------------------------------------------
(* The deliveries.                                                         *)

Insert(u, items) ==
    /\ lastid < MaxLog
    /\ lastid' = lastid + 1
    /\ importing' = With(importing, lastid + 1, [userid |-> u, items |-> items])
    /\ UNCHANGED <<dlog, dlog_stats, dlog_stats_up_to, pid, worker, settled, stops>>

Commit(l) ==
    /\ l \in DOMAIN importing
    /\ dlog' = With(dlog, l, importing[l])
    /\ importing' = Without(importing, l)
    /\ UNCHANGED <<lastid, dlog_stats, dlog_stats_up_to, pid, worker, settled, stops>>

\* The logid is not given out again.
Rollback(l) ==
    /\ l \in DOMAIN importing
    /\ importing' = Without(importing, l)
    /\ UNCHANGED <<dlog, lastid, dlog_stats, dlog_stats_up_to, pid, worker, settled,
                   stops>>

delete_dlog(l) ==
    /\ l \in DOMAIN dlog
    /\ dlog' = Without(dlog, l)
    /\ UNCHANGED <<importing, lastid, dlog_stats, dlog_stats_up_to, pid, worker,
                   settled, stops>>

\* A delivery of an unknown driver is given to the driver who turned up.
reconcile(l, u) ==
    /\ l \in DOMAIN dlog
    /\ dlog[l].userid = Company
    /\ dlog' = [dlog EXCEPT ![l].userid = u]
    /\ UNCHANGED <<importing, lastid, dlog_stats, dlog_stats_up_to, pid, worker,
                   settled, stops>>

-----------------------------------------------------------------------------
(* Which process goes on.                                                  *)

Look(p) ==
    /\ worker[p].pc = "look"
    /\ worker' = [worker EXCEPT ![p].pc = IF pid \in {None, p} THEN "set" ELSE "stopped"]
    /\ UNCHANGED <<deliveries, dlog_stats, dlog_stats_up_to, pid, settled, stops>>

\* The mutant: the first round counts.
SetAndCount(p) ==
    /\ worker[p].pc = "set"
    /\ pid' = p
    /\ worker' = [worker EXCEPT ![p].pc = "read", ![p].first = FALSE]
    /\ UNCHANGED <<deliveries, dlog_stats, dlog_stats_up_to, settled, stops>>

\* The first round does nothing but wait.
Set(p) ==
    /\ worker[p].pc = "set"
    /\ pid' = p
    /\ worker' = [worker EXCEPT ![p].pc = IF worker[p].first THEN "wait" ELSE "read"]
    /\ UNCHANGED <<deliveries, dlog_stats, dlog_stats_up_to, settled, stops>>

\* A process that read the key is done with setting it before another one has
\* waited for three seconds.
Wait(p) ==
    /\ worker[p].pc = "wait"
    /\ \A q \in Procs \ {p} : worker[q].pc # "set"
    /\ worker' = [worker EXCEPT ![p].pc = "look", ![p].first = FALSE]
    /\ UNCHANGED <<deliveries, dlog_stats, dlog_stats_up_to, pid, settled, stops>>

-----------------------------------------------------------------------------
(* Counting.                                                               *)

\* The mutant: a range that ends before the highest logid.
SeekBelow(p, from, max) ==
    LET found == {l \in DOMAIN dlog : from < l /\ l < max /\ Readable(l)}
        next == Min(found)
    IN worker' = [worker EXCEPT ![p] =
          IF found = {}
          THEN [Fresh EXCEPT !.first = FALSE]
          ELSE [@ EXCEPT !.pc = "count", !.logid = next, !.max = max,
                         !.job = dlog[next], !.part = Rows(dlog[next])]]

\* The next delivery that can be read, of those up to the highest logid there
\* was when the round began; the round is over if there is none. What is read
\* between two commits is one snapshot.
Seek(p, from, max) ==
    LET found == {l \in DOMAIN dlog : from < l /\ l <= max /\ Readable(l)}
        next == Min(found)
    IN worker' = [worker EXCEPT ![p] =
          IF found = {}
          THEN [Fresh EXCEPT !.first = FALSE]
          ELSE [@ EXCEPT !.pc = "count", !.logid = next, !.max = max,
                         !.job = dlog[next], !.part = Rows(dlog[next])]]

\* The mutant: the delivery at the cursor is read again.
BeginAtTheCursor(p) ==
    /\ worker[p].pc = "read"
    /\ Seek(p, dlog_stats_up_to - 1, Max(DOMAIN dlog \union {0}))
    /\ UNCHANGED <<deliveries, dlog_stats, dlog_stats_up_to, pid, settled, stops>>

Begin(p) ==
    /\ worker[p].pc = "read"
    /\ Seek(p, dlog_stats_up_to, Max(DOMAIN dlog \union {0}))
    /\ UNCHANGED <<deliveries, dlog_stats, dlog_stats_up_to, pid, settled, stops>>

NextLog(p) ==
    /\ worker[p].pc = "next"
    /\ Seek(p, worker[p].logid, worker[p].max)
    /\ UNCHANGED <<deliveries, dlog_stats, dlog_stats_up_to, pid, settled, stops>>

\* The mutant: a row that is inserted is updated as well.
ItemInsertedAndUpdated(p, c) ==
    /\ worker[p].pc = "count"
    /\ c \in worker[p].part
    /\ c[1] = Company => \A b \in worker[p].part : b[1] = Company
    /\ dlog_stats' = [dlog_stats EXCEPT ![c] = IF @ = 0 THEN 2 * Amount(worker[p].job, c)
                                               ELSE @ + Amount(worker[p].job, c)]
    /\ worker' = [worker EXCEPT ![p].part = @ \ {c}]
    /\ UNCHANGED <<deliveries, dlog_stats_up_to, pid, settled, stops>>

\* The driver's rows come first. A row is inserted or updated, and committed.
Item(p, c) ==
    /\ worker[p].pc = "count"
    /\ c \in worker[p].part
    /\ c[1] = Company => \A b \in worker[p].part : b[1] = Company
    /\ dlog_stats' = [dlog_stats EXCEPT ![c] = @ + Amount(worker[p].job, c)]
    /\ worker' = [worker EXCEPT ![p].part = @ \ {c}]
    /\ UNCHANGED <<deliveries, dlog_stats_up_to, pid, settled, stops>>

\* The mutant: the cursor stays before the delivery.
AdvanceBehind(p) ==
    /\ worker[p].pc = "count"
    /\ worker[p].part = {}
    /\ dlog_stats_up_to' = worker[p].logid - 1
    /\ settled' = With(settled, worker[p].logid, worker[p].job)
    /\ worker' = [worker EXCEPT ![p].pc = "next", ![p].job = NoJob, ![p].part = {}]
    /\ UNCHANGED <<deliveries, dlog_stats, pid, stops>>

Advance(p) ==
    /\ worker[p].pc = "count"
    /\ worker[p].part = {}
    /\ dlog_stats_up_to' = worker[p].logid
    /\ settled' = With(settled, worker[p].logid, worker[p].job)
    /\ worker' = [worker EXCEPT ![p].pc = "next", ![p].job = NoJob, ![p].part = {}]
    /\ UNCHANGED <<deliveries, dlog_stats, pid, stops>>

\* An exception in the middle: what was counted stays, and the next one follows.
Fail(p) ==
    /\ worker[p].pc = "count"
    /\ stops < MaxStops
    /\ stops' = stops + 1
    /\ worker' = [worker EXCEPT ![p].pc = "next", ![p].job = NoJob, ![p].part = {}]
    /\ UNCHANGED <<deliveries, dlog_stats, dlog_stats_up_to, pid, settled>>

-----------------------------------------------------------------------------
(* Ends and starts.                                                        *)

\* A process ends and is started again, with another pid.
Die(p) ==
    /\ stops < MaxStops
    /\ stops' = stops + 1
    /\ worker' = [worker EXCEPT ![p] = Fresh]
    /\ pid' = IF pid = p THEN Gone ELSE pid
    /\ UNCHANGED <<deliveries, dlog_stats, dlog_stats_up_to, settled>>

Start ==
    /\ stops < MaxStops
    /\ stops' = stops + 1
    /\ worker' = [p \in Procs |-> Fresh]
    /\ pid' = None
    /\ importing' = NoDelivery
    /\ UNCHANGED <<dlog, lastid>>

Restart == Start /\ UNCHANGED <<dlog_stats, dlog_stats_up_to, settled>>

\* All of it again, before the workers start: --rebuild-dlog-stats.
rebuild ==
    /\ Start
    /\ settled' = [l \in {i \in DOMAIN dlog : Readable(i)} |-> dlog[l]]
    /\ dlog_stats' = Tally!TallyOf(settled')
    /\ dlog_stats_up_to' = Max(DOMAIN dlog \union {0})

-----------------------------------------------------------------------------
Environment ==
    \/ \E u \in Drivers \union {Company}, items \in Contents : Insert(u, items)
    \/ \E l \in 1..MaxLog : Commit(l) \/ Rollback(l) \/ delete_dlog(l)
    \/ \E l \in 1..MaxLog, u \in Drivers : reconcile(l, u)
    \/ \E p \in Procs : Fail(p) \/ Die(p)
    \/ Restart
    \/ rebuild

UpdateDlogStats(p) ==
    \/ Look(p) \/ Set(p) \/ Wait(p)
    \/ Begin(p) \/ NextLog(p)
    \/ \E c \in Cells : Item(p, c)
    \/ Advance(p)

Next == Environment \/ \E p \in Procs : UpdateDlogStats(p)

Spec == Init /\ [][Next]_vars /\ \A p \in Procs : WF_vars(UpdateDlogStats(p))

-----------------------------------------------------------------------------
\* Every variable has its type; the cursor and the deliveries are within the
\* logids given out, and what is being counted is one of them.
TypeOK ==
    /\ lastid \in 0..MaxLog
    /\ DOMAIN dlog \subseteq 1..lastid /\ DOMAIN importing \subseteq 1..lastid
    /\ \A l \in DOMAIN dlog : dlog[l] \in Tally!Deliveries
    /\ \A l \in DOMAIN importing : importing[l] \in Tally!Deliveries
    /\ dlog_stats \in [Cells -> Nat]
    /\ dlog_stats_up_to \in 0..lastid \union {1}
    /\ pid \in Procs \union {None, Gone}
    /\ \A p \in Procs :
        /\ worker[p].pc \in {"look", "set", "wait", "stopped", "read", "next", "count"}
        /\ worker[p].part \subseteq Rows(worker[p].job)
        /\ worker[p].logid <= worker[p].max /\ worker[p].max <= lastid
    /\ DOMAIN settled \subseteq 1..dlog_stats_up_to
    /\ stops \in 0..MaxStops

\* At most one process counts, although each of them may find the key unset.
OneWorker ==
    \A p, q \in Procs :
        /\ worker[p].pc \in {"read", "next", "count"}
        /\ worker[q].pc \in {"read", "next", "count"}
        => p = q

\* The statistics are the tally of whole deliveries: none is counted twice unless
\* the worker was stopped in the middle of it.
CountedAsPromised == Tally!Spec

\* A delivery is counted, or left behind by the cursor, as long as the process
\* that holds the key lives.
Counted(l) == dlog_stats_up_to >= l \/ l \notin DOMAIN dlog \/ pid = Gone
EveryoneIsCounted == \A l \in 1..MaxLog : (l \in DOMAIN dlog /\ Readable(l)) ~> Counted(l)
=============================================================================
